---- MODULE Spec2Model ----
(***************************************************************************)
(* qr-forge: option validation, option building, output resolution and the *)
(* sequential batch loop, modelled from the JavaScript sources.            *)
(*                                                                         *)
(* JavaScript strings are sequences of one-character strings, so that      *)
(* trimming, splitting, padding, extension sniffing and path arithmetic    *)
(* are computed the way the code computes them.                            *)
(***************************************************************************)
EXTENDS Integers, Sequences, FiniteSets, TLC

\* `undefined`: an option that was not supplied (a value no string equals)
Absent == <<"<undefined>">>

\* JavaScript truthiness of an option value: undefined and "" are falsy
Truthy(v) == v # Absent /\ v # <<>>

----------------------------------------------------------------------------
(* String primitives (ECMAScript String.prototype)                         *)

RECURSIVE Concat(_)
\* Array.prototype.join("") over a sequence of strings
Concat(ss) == IF ss = <<>> THEN <<>> ELSE Head(ss) \o Concat(Tail(ss))

\* String.prototype.slice(from) with 0-based from
SliceFrom(s, from) == IF from >= Len(s) THEN <<>> ELSE SubSeq(s, from + 1, Len(s))

\* String.prototype.slice(0, to) with 0-based exclusive to
SliceTo(s, to) == IF to <= 0 THEN <<>> ELSE SubSeq(s, 1, IF to > Len(s) THEN Len(s) ELSE to)

\* 1-based positions of character c in s
Positions(s, c) == {k \in 1..Len(s) : s[k] = c}

SetMax(S) == CHOOSE m \in S : \A x \in S : x <= m

SetMin(S) == CHOOSE m \in S : \A x \in S : m <= x

\* String.prototype.endsWith
EndsWith(s, suffix) ==
    /\ Len(suffix) <= Len(s)
    /\ SubSeq(s, Len(s) - Len(suffix) + 1, Len(s)) = suffix

UpperLetters == <<"A","B","C","D","E","F","G","H","I","J","K","L","M",
                  "N","O","P","Q","R","S","T","U","V","W","X","Y","Z">>

LowerLetters == <<"a","b","c","d","e","f","g","h","i","j","k","l","m",
                  "n","o","p","q","r","s","t","u","v","w","x","y","z">>

LowerChar(c) ==
    IF \E k \in 1..26 : UpperLetters[k] = c
    THEN LowerLetters[CHOOSE k \in 1..26 : UpperLetters[k] = c]
    ELSE c

UpperChar(c) ==
    IF \E k \in 1..26 : LowerLetters[k] = c
    THEN UpperLetters[CHOOSE k \in 1..26 : LowerLetters[k] = c]
    ELSE c

\* String.prototype.toLowerCase
ToLowerCase(s) == [k \in 1..Len(s) |-> LowerChar(s[k])]

\* String.prototype.toUpperCase
ToUpperCase(s) == [k \in 1..Len(s) |-> UpperChar(s[k])]

\* ECMAScript WhiteSpace and LineTerminator characters (those in the model's alphabet)
WhiteSpace == {" ", "\t", "\r", "\n"}

RECURSIVE TrimStart(_)
TrimStart(s) ==
    IF s # <<>> /\ Head(s) \in WhiteSpace THEN TrimStart(Tail(s)) ELSE s

RECURSIVE TrimEnd(_)
TrimEnd(s) ==
    IF s # <<>> /\ s[Len(s)] \in WhiteSpace THEN TrimEnd(SubSeq(s, 1, Len(s) - 1)) ELSE s

\* String.prototype.trim
Trim(s) == TrimEnd(TrimStart(s))

\* the parts of two adjacent stretches of a string put together: the last part
\* of the left stretch continues in the first part of the right one
JoinParts(left, right) ==
    SubSeq(left, 1, Len(left) - 1) \o <<left[Len(left)] \o right[1]>> \o Tail(right)

RECURSIVE Split(_, _)
\* String.prototype.split(sep) for a one-character separator
Split(s, sep) ==
    IF Len(s) = 0 THEN << <<>> >>
    ELSE IF Len(s) = 1 THEN (IF s[1] = sep THEN << <<>>, <<>> >> ELSE <<s>>)
    ELSE JoinParts(Split(SubSeq(s, 1, Len(s) \div 2), sep),
                   Split(SubSeq(s, Len(s) \div 2 + 1, Len(s)), sep))

Digits == <<"0","1","2","3","4","5","6","7","8","9">>

IsDigit(c) == \E k \in 1..10 : Digits[k] = c

DigitVal(c) == (CHOOSE k \in 1..10 : Digits[k] = c) - 1

RECURSIVE NumberToString(_)
\* String(n) for a non-negative integer n
NumberToString(n) ==
    IF n < 10 THEN <<Digits[n + 1]>>
    ELSE NumberToString(n \div 10) \o <<Digits[(n % 10) + 1]>>

RECURSIVE PadStart(_, _, _)
\* String.prototype.padStart(targetLength, fill) for a one-character fill
PadStart(s, targetLength, fill) ==
    IF Len(s) >= targetLength THEN s ELSE PadStart(<<fill>> \o s, targetLength, fill)

----------------------------------------------------------------------------
(* Node.js path module, POSIX flavour                                      *)

\* path.sep
Sep == "/"

\* path.isAbsolute
IsAbsolute(p) == Len(p) > 0 /\ p[1] = Sep

RECURSIVE StripTrailingSeps(_)
StripTrailingSeps(p) ==
    IF p # <<>> /\ p[Len(p)] = Sep THEN StripTrailingSeps(SubSeq(p, 1, Len(p) - 1)) ELSE p

\* the part of q after its last separator
SegmentOf(q) ==
    IF Positions(q, Sep) = {} THEN q ELSE SliceFrom(q, SetMax(Positions(q, Sep)))

\* the last path segment, trailing separators ignored (path.basename(p))
LastSegment(p) == SegmentOf(StripTrailingSeps(p))

\* the extension of the segment b whose "." are at the positions dots
ExtensionAt(b, dots) ==
    IF dots = {} \/ b = <<".", ".">> THEN <<>>
    ELSE IF SetMax(dots) = 1 THEN <<>>
    ELSE SliceFrom(b, SetMax(dots) - 1)

ExtensionOf(b) == ExtensionAt(b, Positions(b, "."))

\* path.extname: from the last "." of the last segment; "" when there is no
\* ".", when that "." starts the segment, or when the segment is ".."
Extname(p) == ExtensionOf(LastSegment(p))

\* the segment b without the suffix ext
WithoutSuffix(b, ext) ==
    IF ext # <<>> /\ b # ext /\ EndsWith(b, ext)
    THEN SliceTo(b, Len(b) - Len(ext))
    ELSE b

\* path.basename(p, ext)
Basename(p, ext) == WithoutSuffix(LastSegment(p), ext)

\* the directory part of p, given the positions of the separators that are
\* followed by a non-separator character
DirnameAt(p, ends) ==
    IF p = <<>> THEN <<".">>
    ELSE IF ends = {} THEN (IF IsAbsolute(p) THEN <<Sep>> ELSE <<".">>)
    ELSE IF IsAbsolute(p) /\ SetMax(ends) = 2 THEN <<Sep, Sep>>
    ELSE SliceTo(p, SetMax(ends) - 1)

\* path.dirname: the path up to the last separator that is followed by a
\* non-separator character (the separator at index 0 excluded)
Dirname(p) ==
    DirnameAt(p, {k \in 2..Len(p) : p[k] = Sep /\ \E j \in (k + 1)..Len(p) : p[j] # Sep})

RECURSIVE NormalizeSegments(_, _, _)
\* normalizeString: resolves "." and ".." segments
NormalizeSegments(segs, acc, allowAboveRoot) ==
    IF segs = <<>> THEN acc
    ELSE LET s == Head(segs)
         IN  IF s = <<>> \/ s = <<".">>
             THEN NormalizeSegments(Tail(segs), acc, allowAboveRoot)
             ELSE IF s = <<".", ".">>
             THEN IF acc # <<>> /\ acc[Len(acc)] # <<".", ".">>
                  THEN NormalizeSegments(Tail(segs), SubSeq(acc, 1, Len(acc) - 1), allowAboveRoot)
                  ELSE IF allowAboveRoot
                  THEN NormalizeSegments(Tail(segs), Append(acc, s), allowAboveRoot)
                  ELSE NormalizeSegments(Tail(segs), acc, allowAboveRoot)
             ELSE NormalizeSegments(Tail(segs), Append(acc, s), allowAboveRoot)

RECURSIVE JoinWith(_, _)
\* Array.prototype.join(sep) over a sequence of strings
JoinWith(ss, sep) ==
    IF ss = <<>> THEN <<>>
    ELSE IF Len(ss) = 1 THEN Head(ss)
    ELSE Head(ss) \o <<sep>> \o JoinWith(Tail(ss), sep)

\* the normalized path with its root and trailing separator put back
NormalizedWith(p, body) ==
    IF body = <<>>
    THEN (IF IsAbsolute(p) THEN <<Sep>> ELSE IF p[Len(p)] = Sep THEN <<".", Sep>> ELSE <<".">>)
    ELSE (IF IsAbsolute(p) THEN <<Sep>> ELSE <<>>) \o body
         \o (IF p[Len(p)] = Sep THEN <<Sep>> ELSE <<>>)

\* path.normalize
Normalize(p) ==
    IF p = <<>> THEN <<".">>
    ELSE NormalizedWith(p, JoinWith(NormalizeSegments(Split(p, Sep), <<>>, ~IsAbsolute(p)), Sep))

\* the non-empty arguments of path.join, joined and normalized
JoinGiven(given) == IF given = <<>> THEN <<".">> ELSE Normalize(JoinWith(given, Sep))

\* path.join
PathJoin(parts) == JoinGiven(SelectSeq(parts, LAMBDA x : x # <<>>))

\* process.cwd()
Cwd == <<"/", "w">>

\* path.resolve(p)
PathResolve(p) ==
    <<Sep>> \o JoinWith(NormalizeSegments(
                  Split(IF IsAbsolute(p) THEN p ELSE Cwd \o <<Sep>> \o p, Sep), <<>>, FALSE), Sep)

\* os.homedir()
HomeDir == <<"/", "h">>

\* DEFAULT_EXPORT_DIR = path.join(os.homedir(), ".qr-forge", "exports")
DEFAULT_EXPORT_DIR ==
    PathJoin(<<HomeDir, <<".","q","r","-","f","o","r","g","e">>, <<"e","x","p","o","r","t","s">> >>)

----------------------------------------------------------------------------
(* Number conversions (ECMAScript Number(), parseInt())                    *)

RECURSIVE Pow10(_)
Pow10(n) == IF n = 0 THEN 1 ELSE 10 * Pow10(n - 1)

AllDigits(s) == \A k \in 1..Len(s) : IsDigit(s[k])

RECURSIVE DecVal(_)
\* the value of a string of decimal digits ("" is 0)
DecVal(s) ==
    IF s = <<>> THEN 0 ELSE 10 * DecVal(SubSeq(s, 1, Len(s) - 1)) + DigitVal(s[Len(s)])

HexDigits == <<"0","1","2","3","4","5","6","7","8","9","A","B","C","D","E","F">>

IsHexDigit(c) == \E k \in 1..16 : HexDigits[k] = UpperChar(c)

HexDigitVal(c) == (CHOOSE k \in 1..16 : HexDigits[k] = UpperChar(c)) - 1

RECURSIVE HexVal(_)
HexVal(s) ==
    IF s = <<>> THEN 0 ELSE 16 * HexVal(SubSeq(s, 1, Len(s) - 1)) + HexDigitVal(s[Len(s)])

\* A JavaScript number as a fraction num/den (den > 0), or NaN, or +-Infinity
NaN == [nan |-> TRUE, inf |-> 0, num |-> 0, den |-> 1]

Infinity(sign) == [nan |-> FALSE, inf |-> sign, num |-> 0, den |-> 1]

Num(n, d) == [nan |-> FALSE, inf |-> 0, num |-> n, den |-> d]

IsNaN(x) == x.nan

\* x >= n for an integer n
NumGeq(x, n) == ~x.nan /\ (x.inf = 1 \/ (x.inf = 0 /\ x.num >= n * x.den))

\* x <= n for an integer n
NumLeq(x, n) == ~x.nan /\ (x.inf = -1 \/ (x.inf = 0 /\ x.num <= n * x.den))

\* an optional sign followed by the rest
SignOf(s) == IF s # <<>> /\ s[1] = "-" THEN -1 ELSE 1

Unsigned(s) == IF s # <<>> /\ s[1] \in {"+", "-"} THEN Tail(s) ELSE s

\* scaled * 10^e as a fraction
Scaled(scaled, e) ==
    IF e >= 0 THEN Num(scaled * Pow10(e), 1) ELSE Num(scaled, Pow10(-e))

\* the value of intPart.fracPart e expPart, NaN when it is not a literal
DecimalValue(intPart, fracPart, expPart) ==
    IF /\ AllDigits(intPart) /\ AllDigits(fracPart)
       /\ Len(intPart) + Len(fracPart) > 0
       /\ Unsigned(expPart) # <<>> /\ AllDigits(Unsigned(expPart))
    THEN Scaled(DecVal(intPart) * Pow10(Len(fracPart)) + DecVal(fracPart),
                SignOf(expPart) * DecVal(Unsigned(expPart)) - Len(fracPart))
    ELSE NaN

\* the mantissa split at its first "."
MantissaAt(mant, dots, expPart) ==
    DecimalValue(IF dots = {} THEN mant ELSE SliceTo(mant, SetMin(dots) - 1),
                 IF dots = {} THEN <<>> ELSE SliceFrom(mant, SetMin(dots)),
                 expPart)

\* the literal split at its first exponent mark
ExponentAt(s, es) ==
    MantissaAt(IF es = {} THEN s ELSE SliceTo(s, SetMin(es) - 1),
               Positions(IF es = {} THEN s ELSE SliceTo(s, SetMin(es) - 1), "."),
               IF es = {} THEN <<"0">> ELSE SliceFrom(s, SetMin(es)))

\* StrUnsignedDecimalLiteral: digits [. digits] | . digits, then an optional
\* exponent e[+-]digits
DecimalLiteral(s) == ExponentAt(s, Positions(s, "e") \cup Positions(s, "E"))

\* the literal's value with its sign
Signed(d, sign) == IF d.nan THEN NaN ELSE Num(sign * d.num, d.den)

\* Number(value) for a trimmed string (StringToNumber)
NumberOfTrimmed(t) ==
    IF t = <<>> THEN Num(0, 1)
    ELSE IF Len(t) > 2 /\ t[1] = "0" /\ t[2] \in {"x", "X"}
    THEN (IF \A k \in 3..Len(t) : IsHexDigit(t[k])
          THEN Num(HexVal(SliceFrom(t, 2)), 1) ELSE NaN)
    ELSE IF Unsigned(t) = <<"I","n","f","i","n","i","t","y">> THEN Infinity(SignOf(t))
    ELSE Signed(DecimalLiteral(Unsigned(t)), SignOf(t))

\* Number(value) for a string value
ToNumber(value) == NumberOfTrimmed(Trim(value))

RECURSIVE DigitPrefix(_)
DigitPrefix(s) ==
    IF s # <<>> /\ IsDigit(Head(s)) THEN <<Head(s)>> \o DigitPrefix(Tail(s)) ELSE <<>>

\* the integer a digit prefix denotes, NaN when there is no digit
IntegerOf(d, sign) == IF d = <<>> THEN NaN ELSE Num(sign * DecVal(d), 1)

ParseIntOfTrimmed(t) == IntegerOf(DigitPrefix(Unsigned(t)), SignOf(t))

\* parseInt(value, 10) for a string value
ParseInt(value) == ParseIntOfTrimmed(TrimStart(value))

----------------------------------------------------------------------------
(* validators.js                                                           *)
(*                                                                         *)
(* The file system is a function from the paths of the regular files that  *)
(* exist to [content, readable]; directories are a set of paths.           *)

\* variant of the color test without the count of digits
isValidHexColor_AnyLength(color) ==
    /\ Truthy(color)
    /\ color[1] = "#"
    /\ \A k \in 2..Len(color) : IsHexDigit(color[k])

\* /^#([A-Fa-f0-9]{3}|[A-Fa-f0-9]{4}|[A-Fa-f0-9]{6}|[A-Fa-f0-9]{8})$/
isValidHexColor(color) ==
    /\ Truthy(color)
    /\ color[1] = "#"
    /\ Len(color) - 1 \in {3, 4, 6, 8}
    /\ \A k \in 2..Len(color) : IsHexDigit(color[k])

\* hex.split("").map(c => c + c).join("")
DoubleDigits(hex) == Concat([k \in 1..Len(hex) |-> <<hex[k], hex[k]>>])

\* variant of the switch that treats #RGBA as #RGB
ExpandHex_DropAlpha(hex) ==
    CASE Len(hex) = 3 -> DoubleDigits(hex) \o <<"F","F">>
      [] Len(hex) = 4 -> DoubleDigits(SubSeq(hex, 1, 3)) \o <<"F","F">>
      [] Len(hex) = 6 -> hex \o <<"F","F">>
      [] OTHER        -> hex

\* the switch on hex.length
ExpandHex(hex) ==
    CASE Len(hex) = 3 -> DoubleDigits(hex) \o <<"F","F">>
      [] Len(hex) = 4 -> DoubleDigits(hex)
      [] Len(hex) = 6 -> hex \o <<"F","F">>
      [] OTHER        -> hex

normalizeHexColor(color) ==
    IF ~isValidHexColor(color) THEN <<"#","0","0","0","0","0","0","F","F">>
    ELSE <<"#">> \o ExpandHex(ToUpperCase(SliceFrom(color, 1)))

\* fs.existsSync(filepath) && fs.statSync(filepath).isFile()
fileExists(fsys, filepath) == filepath \in DOMAIN fsys

\* [".png", ".jpg", ".jpeg", ".svg", ".webp"]
validLogoExtensions ==
    { <<".","p","n","g">>, <<".","j","p","g">>, <<".","j","p","e","g">>,
      <<".","s","v","g">>, <<".","w","e","b","p">> }

isValidLogoFile(fsys, filepath) ==
    /\ fileExists(fsys, filepath)
    /\ ToLowerCase(Extname(filepath)) \in validLogoExtensions

\* variant of the range test that excludes the limits
InRange_Exclusive(num, min, max) == ~IsNaN(num) /\ ~NumLeq(num, min) /\ ~NumGeq(num, max)

\* !isNaN(num) && num >= min && num <= max
InRange(num, min, max) == ~IsNaN(num) /\ NumGeq(num, min) /\ NumLeq(num, max)

isValidNumber(value, min, max) == InRange(ToNumber(value), min, max)

\* ["png", "svg", "terminal"]
validFormats ==
    { <<"p","n","g">>, <<"s","v","g">>, <<"t","e","r","m","i","n","a","l">> }

isValidFormat(format) == format # Absent /\ ToLowerCase(format) \in validFormats

\* .map(line => line.trim())
TrimAll(raw) == [k \in 1..Len(raw) |-> Trim(raw[k])]

\* variant of the line reader without the filter of empty lines
BatchLines_KeepBlank(content) == TrimAll(Split(content, "\n"))

\* content.split("\n").map(line => line.trim()).filter(line => line.length > 0)
BatchLines(content) == SelectSeq(TrimAll(Split(content, "\n")), LAMBDA line : Len(line) > 0)

\* the result for the lines read from the file
BatchFileResult(batchLines) ==
    IF Len(batchLines) = 0
    THEN [valid |-> FALSE, lines |-> <<>>, error |-> <<"Batch file is empty", <<>> >>]
    ELSE [valid |-> TRUE, lines |-> batchLines, error |-> <<"", <<>> >>]

validateBatchFile(fsys, filepath) ==
    IF ~fileExists(fsys, filepath)
    THEN [valid |-> FALSE, lines |-> <<>>, error |-> <<"Batch file not found", <<>> >>]
    ELSE IF ~fsys[filepath].readable
    THEN [valid |-> FALSE, lines |-> <<>>, error |-> <<"Failed to read batch file: ", filepath>>]
    ELSE BatchFileResult(BatchLines(fsys[filepath].content))

\* Size range accepted by validateOptions
MinSize == 50

MaxSize == 2000

\* Margin range accepted by validateOptions
MinMargin == 0

MaxMargin == 20

\* Logo size percentage range accepted by validateOptions
MinLogoSize == 5

MaxLogoSize == 40

\* errors.push(...) when the rule's condition holds
PushIf(errors, violated, error) == IF violated THEN Append(errors, error) ELSE errors

\* the batch rule, for the result of validateBatchFile(options.batch)
BatchRule(options, batchResult) ==
    [violated |-> Truthy(options.batch) /\ ~batchResult.valid, error |-> batchResult.error]

\* One entry per rule of validateOptions, in source order: whether the rule's
\* condition holds for (options, data), and the error it pushes.
ValidationRules(fsys, options, data) ==
    << [violated |-> ~Truthy(data) /\ ~Truthy(options.batch),
        error    |-> <<"Data argument is required (or use --batch for batch processing)", <<>> >>],
       [violated |-> Truthy(options.color) /\ ~isValidHexColor(options.color),
        error    |-> <<"Invalid color format: ", options.color>>],
       [violated |-> Truthy(options.background) /\ ~isValidHexColor(options.background),
        error    |-> <<"Invalid background format: ", options.background>>],
       [violated |-> Truthy(options.size) /\ ~isValidNumber(options.size, MinSize, MaxSize),
        error    |-> <<"Invalid size: ", options.size>>],
       [violated |-> Truthy(options.margin) /\ ~isValidNumber(options.margin, MinMargin, MaxMargin),
        error    |-> <<"Invalid margin: ", options.margin>>],
       [violated |-> Truthy(options.format) /\ ~isValidFormat(options.format),
        error    |-> <<"Invalid format: ", options.format>>],
       [violated |-> Truthy(options.logo) /\ ~isValidLogoFile(fsys, options.logo),
        error    |-> <<"Invalid logo file: ", options.logo>>],
       [violated |-> Truthy(options.logoSize) /\ ~isValidNumber(options.logoSize, MinLogoSize, MaxLogoSize),
        error    |-> <<"Invalid logo size: ", options.logoSize>>],
       BatchRule(options, validateBatchFile(fsys, options.batch)) >>

RECURSIVE CollectErrors(_, _)

\* variant of the validation that returns at the first violated rule
CollectErrors_StopAtFirst(rules, errors) ==
    IF SelectSeq(rules, LAMBDA r : r.violated) = <<>> THEN errors
    ELSE Append(errors, SelectSeq(rules, LAMBDA r : r.violated)[1].error)

\* the sequence of if (...) errors.push(...) statements, run from the first
CollectErrors(rules, errors) ==
    IF rules = <<>> THEN errors
    ELSE CollectErrors(Tail(rules), PushIf(errors, Head(rules).violated, Head(rules).error))

\* { valid: errors.length === 0, errors }
ValidationResult(errors) == [valid |-> Len(errors) = 0, errors |-> errors]

validateOptions(fsys, options, data) ==
    ValidationResult(CollectErrors(ValidationRules(fsys, options, data), <<>>))

----------------------------------------------------------------------------
(* qr-builder.js                                                           *)

S_png == <<"p","n","g">>

S_svg == <<"s","v","g">>

\* DEFAULTS.width
DefaultWidth == 300

\* DEFAULTS.margin
DefaultMargin == 4

\* DEFAULTS.darkColor
DefaultDarkColor == <<"#","0","0","0","0","0","0","F","F">>

\* DEFAULTS.lightColor
DefaultLightColor == <<"#","F","F","F","F","F","F","F","F">>

\* DEFAULTS.errorCorrectionLevel
DefaultErrorCorrectionLevel == "M"

\* variant of the level selection that ignores the logo
ErrorCorrectionLevel_IgnoreLogo(cliOptions) ==
    IF cliOptions.logo = Absent THEN DefaultErrorCorrectionLevel ELSE DefaultErrorCorrectionLevel

\* cliOptions.logo ? "H" : DEFAULTS.errorCorrectionLevel
ErrorCorrectionLevel(cliOptions) ==
    IF Truthy(cliOptions.logo) THEN "H" ELSE DefaultErrorCorrectionLevel

\* a || b for string operands
OrElse(a, b) == IF Truthy(a) THEN a ELSE b

buildQROptions(cliOptions) ==
    [ errorCorrectionLevel |-> ErrorCorrectionLevel(cliOptions),
      margin |-> IF Truthy(cliOptions.margin) THEN ParseInt(cliOptions.margin)
                 ELSE Num(DefaultMargin, 1),
      width  |-> IF Truthy(cliOptions.size) THEN ParseInt(cliOptions.size)
                 ELSE Num(DefaultWidth, 1),
      dark   |-> normalizeHexColor(OrElse(cliOptions.color, DefaultDarkColor)),
      light  |-> normalizeHexColor(OrElse(cliOptions.background, DefaultLightColor)) ]

buildTerminalOptions(cliOptions) ==
    [ type   |-> "terminal",
      small  |-> TRUE,
      margin |-> IF Truthy(cliOptions.margin) THEN ParseInt(cliOptions.margin)
                 ELSE Num(DefaultMargin, 1),
      errorCorrectionLevel |-> ErrorCorrectionLevel(cliOptions) ]

\* Array.prototype.pop() of a non-empty array
LastOf(parts) == parts[Len(parts)]

\* options.output.split(".").pop()
LastDotPart(output) == LastOf(Split(output, "."))

\* the format an output extension gives, png unless it is png or svg
FormatOfExtension(ext) == IF ext \in {S_png, S_svg} THEN ext ELSE S_png

getOutputFormat(options) ==
    IF Truthy(options.format) THEN ToLowerCase(options.format)
    ELSE IF Truthy(options.output)
    THEN FormatOfExtension(ToLowerCase(LastDotPart(options.output)))
    ELSE S_png

\* the percentage getLogoSize falls back to
DefaultLogoSize == 20

\* parseInt(options.logoSize, 10) || 20
LogoSizeOr(parsed) == IF IsNaN(parsed) \/ parsed.num = 0 THEN DefaultLogoSize ELSE parsed.num

\* Math.min(Math.max(size, 5), 40)
ClampLogoSize(size) == IF size < 5 THEN 5 ELSE IF size > 40 THEN 40 ELSE size

\* variant of getLogoSize without the upper limit
getLogoSize_NoUpperLimit(options) ==
    Num(IF LogoSizeOr(ParseInt(options.logoSize)) < 5 THEN 5
        ELSE LogoSizeOr(ParseInt(options.logoSize)), 100)

\* the logo size as a fraction: the clamped percentage over 100
getLogoSize(options) == Num(ClampLogoSize(LogoSizeOr(ParseInt(options.logoSize))), 100)

\* variant of shouldEmbedLogo that does not look at the format
shouldEmbedLogo_IgnoreFormat(options) == Truthy(options.logo)

shouldEmbedLogo(options) == Truthy(options.logo) /\ getOutputFormat(options) = S_png

----------------------------------------------------------------------------
(* generate.js and batch.js: output resolution                             *)

\* `qr-${timestamp}.${format}`
SingleFileName(timestamp, format) ==
    <<"q","r","-">> \o NumberToString(timestamp) \o <<".">> \o format

\* output.includes(path.sep)
IncludesSep(output) == Positions(output, Sep) # {}

\* variant that resolves a bare file name against the working directory
resolveOutputPath_NameInCwd(output, format, timestamp) ==
    IF ~Truthy(output)
    THEN PathJoin(<<DEFAULT_EXPORT_DIR, SingleFileName(timestamp, format)>>)
    ELSE PathResolve(output)

resolveOutputPath(output, format, timestamp) ==
    IF ~Truthy(output)
    THEN PathJoin(<<DEFAULT_EXPORT_DIR, SingleFileName(timestamp, format)>>)
    ELSE IF ~IsAbsolute(output) /\ ~IncludesSep(output)
    THEN PathJoin(<<DEFAULT_EXPORT_DIR, output>>)
    ELSE PathResolve(output)

\* variant of the folder name without the timestamp
BatchFolderName_NoTimestamp(batchName, timestamp) ==
    batchName \o <<"_","b","a","t","c","h","_">> \o NumberToString(0 * timestamp)

\* `${batchName}_batch_${timestamp}`
BatchFolderName(batchName, timestamp) ==
    batchName \o <<"_","b","a","t","c","h","_">> \o NumberToString(timestamp)

\* variant that puts every directory under the default export directory
AgainstDefaultDir_AlwaysJoin(dir) == PathJoin(<<DEFAULT_EXPORT_DIR, dir>>)

\* path.isAbsolute(dir) ? dir : path.join(DEFAULT_EXPORT_DIR, dir)
AgainstDefaultDir(dir) == IF IsAbsolute(dir) THEN dir ELSE PathJoin(<<DEFAULT_EXPORT_DIR, dir>>)

resolveOutputDir(output, batchName, timestamp) ==
    IF ~Truthy(output)
    THEN PathJoin(<<DEFAULT_EXPORT_DIR, BatchFolderName(batchName, timestamp)>>)
    ELSE IF Len(Extname(output)) > 0
    THEN AgainstDefaultDir(Dirname(output))
    ELSE AgainstDefaultDir(output)

\* path.basename(batchFilePath, path.extname(batchFilePath))
BatchFileBaseName(batchFilePath) == Basename(batchFilePath, Extname(batchFilePath))

\* minimum digits of the item number in a batch file name
PadWidth == 3

\* variant of the file name that keeps three digits of the item number
BatchFileName_ThreeDigits(index, format) ==
    <<"q","r","-">> \o PadStart(NumberToString((index + 1) % 1000), PadWidth, "0") \o <<".">> \o format

\* `qr-${String(i + 1).padStart(3, "0")}.${format}` for the 0-based index i
BatchFileName(i, format) ==
    <<"q","r","-">> \o PadStart(NumberToString(i + 1), PadWidth, "0") \o <<".">> \o format

\* path.join(outputDir, filename)
BatchOutputPath(outputDir, i, format) == PathJoin(<<outputDir, BatchFileName(i, format)>>)

----------------------------------------------------------------------------
(* The program state                                                       *)

VARIABLES
    fsys,          \* input files on disk: path -> [content, readable]
    data,          \* the positional [data] argument
    argv,          \* the flags as the user gave them on the command line
    options,       \* the options object commander hands to the action
    now,           \* Date.now()
    pc,            \* position of the CLI action
    handler,       \* the handler the action dispatched to, "none" before
    exitCode,      \* the process exit code, -1 while running
    validated,     \* the action's validation: [valid, errors]
    lines,         \* processBatch: validation.lines
    format,        \* processBatch / generateQR: format
    qrOptions,     \* processBatch / generateQR: qrOptions
    outputDir,     \* processBatch: outputDir
    uselogo,       \* processBatch: uselogo
    i,             \* processBatch: loop index
    success,       \* processBatch: success
    failed,        \* processBatch: failed
    result,        \* the value processBatch returned
    attempted,     \* loop iterations so far: [index, data, path, outcome]
    dirs,          \* directories that exist
    written,       \* output files on disk: path -> [run, at, kind] of the last write
    overwritten,   \* writes of a later run over a file of an earlier run
    encoderCalls,  \* calls made to the QR encoder in this run
    embedCalls,    \* calls made to embedLogo in this run
    run,           \* number of the current invocation of the program
    call,          \* a direct call of an exported function: [fn, ...arguments]
    returned,      \* what that call returned
    stage          \* processBatch: position inside the loop body, "idle" between items

batchVars == <<lines, format, qrOptions, outputDir, uselogo, i, success, failed, result, attempted>>

inputVars == <<fsys, data, argv, options>>

apiVars == <<call, returned, stage>>

effectVars == <<dirs, written, overwritten, encoderCalls, embedCalls>>

vars == <<inputVars, now, pc, handler, exitCode, validated, batchVars, effectVars, run, apiVars>>

\* commander option defaults (.option(flags, description, default))
CommanderDefaults ==
    [ output |-> Absent, format |-> S_png, size |-> <<"3","0","0">>,
      color |-> <<"#","0","0","0","0","0","0">>,
      background |-> <<"#","F","F","F","F","F","F">>,
      margin |-> <<"4">>, logo |-> Absent, logoSize |-> <<"2","0">>,
      batch |-> Absent, html |-> FALSE, img |-> FALSE ]

OptionNames == DOMAIN CommanderDefaults

\* program.parse(): the options object for the flags the user gave
ParseArgs(given) ==
    [name \in OptionNames |->
        IF name \in {"html", "img"} THEN given[name]
        ELSE IF given[name] # Absent THEN given[name] ELSE CommanderDefaults[name]]

\* no value has been assigned yet
Unset == <<"<unset>">>

\* no exported function has been called directly
NoCall == [fn |-> "none"]

\* the action has not validated its input yet
NotValidated == [valid |-> FALSE, errors |-> <<>>]

NoResult == [success |-> -1, failed |-> -1, outputDir |-> Unset]

\* the state in which the action starts, for the given inputs
StartOfRun ==
    /\ pc = "start"
    /\ handler = "none"
    /\ exitCode = -1
    /\ validated = NotValidated
    /\ lines = <<>>
    /\ format = Unset
    /\ qrOptions = buildQROptions(CommanderDefaults)
    /\ outputDir = Unset
    /\ uselogo = FALSE
    /\ i = 0
    /\ success = 0
    /\ failed = 0
    /\ result = NoResult
    /\ attempted = <<>>
    /\ encoderCalls = {}
    /\ embedCalls = {}
    /\ call = NoCall
    /\ returned = Unset
    /\ stage = "idle"

----------------------------------------------------------------------------
(* External effects                                                        *)

\* fs.writeFileSync(path, ...) / QRCode.toFile(path, ...) completing
WriteFile(path, kind) ==
    /\ written' = (path :> [run |-> run, at |-> now, kind |-> kind]) @@ written
    /\ overwritten' =
          IF path \in DOMAIN written /\ written[path].run < run
          THEN overwritten \cup {[path |-> path, earlier |-> written[path].at, later |-> now]}
          ELSE overwritten

NoWrite == UNCHANGED <<written, overwritten>>

\* a call of the QR encoder: QRCode.toString / toBuffer / toFile / toDataURL
EncoderCall(fn, payload, type, opts) ==
    [fn |-> fn, data |-> payload, type |-> type, opts |-> opts]

\* a call of embedLogo(qrBuffer, logoPath, options)
EmbedCall(payload, logoPath) == [data |-> payload, logo |-> logoPath]

\* ensureDirectory(dirpath): true when the directory exists, else the outcome
\* of fs.mkdirSync
ensureDirectory(dirpath, mkdirOk) == dirpath \in dirs \/ mkdirOk

\* the catch block of the action: logger.error, process.exit(1)
ExitWithError ==
    /\ pc' = "exited"
    /\ exitCode' = 1

----------------------------------------------------------------------------
(* bin: the CLI action                                                     *)

\* the handler the action dispatches to once validation passed
DispatchTarget ==
    IF Truthy(options.batch) THEN "batch"
    ELSE IF options.html THEN "html"
    ELSE IF options.img THEN "img"
    ELSE "standard"

\* variant of the action without the process.exit(1) after failed validation
ActionTarget_NoExit(validation) == IF validation.valid THEN DispatchTarget ELSE DispatchTarget

\* where the action goes after validation: process.exit(1), or a handler
ActionTarget(validation) == IF ~validation.valid THEN "exited" ELSE DispatchTarget

\* the action once validation is known: exit, or enter the target handler
Dispatch(validation, target) ==
    /\ validated' = validation
    /\ pc' = target
    /\ handler' = IF target = "exited" THEN handler ELSE target
    /\ exitCode' = IF target = "exited" THEN 1 ELSE exitCode

\* the action for the result of validateOptions(options, data)
Validated(validation) == Dispatch(validation, ActionTarget(validation))

\* .action(async (data, options) => ...): validation, then dispatch
ActionHandler ==
    /\ pc = "start"
    /\ Validated(validateOptions(fsys, options, data))
    /\ UNCHANGED <<inputVars, now, batchVars, effectVars, run, apiVars>>

----------------------------------------------------------------------------
(* batch.js: processBatch, and handleBatchMode around it                   *)

\* processBatch up to the loop, for the validated batch file, the resolved
\* directory and the outcome of creating it
EnterBatch(validation, dir, created) ==
    IF ~validation.valid
    THEN /\ ExitWithError
         /\ UNCHANGED <<batchVars, dirs>>
    ELSE /\ lines' = validation.lines
         /\ format' = getOutputFormat(options)
         /\ qrOptions' = buildQROptions(options)
         /\ outputDir' = dir
         /\ IF ~created
            THEN /\ ExitWithError
                 /\ UNCHANGED <<uselogo, dirs>>
            ELSE /\ pc' = "processing"
                 /\ exitCode' = exitCode
                 /\ uselogo' = shouldEmbedLogo(options)
                 /\ dirs' = dirs \cup {dir}
         /\ UNCHANGED <<i, success, failed, result, attempted>>

\* the directory resolved, then ensureDirectory(outputDir)
EnterBatchDir(validation, dir, mkdirOk) ==
    EnterBatch(validation, dir, ensureDirectory(dir, mkdirOk))

\* processBatch up to the loop: validation, format, options, output directory
ProcessBatchStart ==
    /\ pc = "batch"
    /\ \E mkdirOk \in BOOLEAN :
         EnterBatchDir(validateBatchFile(fsys, options.batch),
                       resolveOutputDir(options.output, BatchFileBaseName(options.batch), now),
                       mkdirOk)
    /\ UNCHANGED <<inputVars, now, handler, validated, written, overwritten,
                   encoderCalls, embedCalls, run, apiVars>>

\* which branch of the loop body handles an item
ItemBranch(fmt, withLogo) ==
    IF fmt = S_svg THEN "svg" ELSE IF withLogo THEN "logo" ELSE "png"

\* what can happen to one item: it is written, or one of its calls throws
ItemOutcomes(branch) ==
    CASE branch = "svg"  -> {"ok", "encodeThrows", "writeThrows"}
      [] branch = "logo" -> {"ok", "encodeThrows", "embedThrows", "writeThrows"}
      [] OTHER           -> {"ok", "encodeThrows"}

\* the encoder call the branch makes
ItemEncoderCall(branch, payload, opts) ==
    CASE branch = "svg"  -> EncoderCall("toString", payload, "svg", opts)
      [] branch = "logo" -> EncoderCall("toBuffer", payload, "png", opts)
      [] OTHER           -> EncoderCall("toFile", payload, "file", opts)

\* what the branch writes: the svg markup, the composited png, the plain png
ItemFileKind(branch) ==
    CASE branch = "svg"  -> "svg"
      [] branch = "logo" -> "png+logo"
      [] OTHER           -> "png"

\* success++ at the end of the try block
CountSuccess(n, outcome) == IF outcome = "ok" THEN n + 1 ELSE n

\* failed++ in the catch block
CountFailed(n, outcome) == IF outcome # "ok" THEN n + 1 ELSE n

\* variant of the loop's step in which a failed item ends the loop
NextIndex_AbortOnFailure(index, outcome) ==
    IF outcome = "ok" THEN index + 1 ELSE Len(lines)

\* the loop's i++
NextIndex(index, outcome) == index + 1

\* the effects of one item: the calls made, the file written, the counters
ItemEffects(payload, path, branch, outcome, opts) ==
    /\ encoderCalls' = encoderCalls \cup {ItemEncoderCall(branch, payload, opts)}
    /\ embedCalls' = IF branch = "logo" /\ outcome # "encodeThrows"
                     THEN embedCalls \cup {EmbedCall(payload, options.logo)}
                     ELSE embedCalls
    /\ IF outcome = "ok" THEN WriteFile(path, ItemFileKind(branch)) ELSE NoWrite

\* one item in its branch: it is written, or one of its calls throws
ProcessItem(payload, path, branch) ==
    \E outcome \in ItemOutcomes(branch) :
        /\ ItemEffects(payload, path, branch, outcome, qrOptions)
        /\ success' = CountSuccess(success, outcome)
        /\ failed' = CountFailed(failed, outcome)
        /\ attempted' = Append(attempted,
               [index |-> i, data |-> payload, path |-> path, outcome |-> outcome])
        /\ i' = NextIndex(i, outcome)

\* one iteration of the for loop: try { encode, composite, write } catch
BatchItem ==
    /\ pc = "processing"
    /\ i < Len(lines)
    /\ ProcessItem(lines[i + 1], BatchOutputPath(outputDir, i, format),
                   ItemBranch(format, uselogo))
    /\ UNCHANGED <<inputVars, now, pc, handler, exitCode, validated, lines, format,
                   qrOptions, outputDir, uselogo, result, dirs, run, apiVars>>

\* the summary, and return { success, failed, outputDir }
ProcessBatchReturn ==
    /\ pc = "processing"
    /\ i >= Len(lines)
    /\ result' = [success |-> success, failed |-> failed, outputDir |-> outputDir]
    /\ pc' = "batchReturned"
    /\ UNCHANGED <<inputVars, now, handler, exitCode, validated, lines, format, qrOptions,
                   outputDir, uselogo, i, success, failed, attempted, effectVars, run, apiVars>>

\* variant of handleBatchMode without the process.exit(1)
BatchExitCode_AlwaysZero(res) == 0 * res.failed

\* the exit code handleBatchMode leaves the process with
BatchExitCode(res) == IF res.failed > 0 THEN 1 ELSE 0

\* handleBatchMode after processBatch returned: exit(1) when items failed
HandleBatchModeReturn ==
    /\ pc = "batchReturned"
    /\ pc' = "exited"
    /\ exitCode' = BatchExitCode(result)
    /\ UNCHANGED <<inputVars, now, handler, validated, batchVars, effectVars, run, apiVars>>

----------------------------------------------------------------------------
(* generate.js: generateQR, generateHTMLEmbed, generateIMGTag, and the     *)
(* handlers of the CLI around them                                         *)

\* displayTerminalQR: the preview, whose failure is only a warning
PreviewCall == EncoderCall("toString", data, "terminal", buildTerminalOptions(options))

\* generateQR once the path is resolved: ensureDirectory, preview, generate
GenerateAt(path, dir, branch, opts, created) ==
    IF options.format = Absent \/ ~created
    THEN /\ ExitWithError
         /\ UNCHANGED effectVars
    ELSE \E outcome \in ItemOutcomes(branch) :
         /\ dirs' = dirs \cup {dir}
         /\ encoderCalls' = encoderCalls \cup {PreviewCall, ItemEncoderCall(branch, data, opts)}
         /\ embedCalls' = IF branch = "logo" /\ outcome # "encodeThrows"
                          THEN embedCalls \cup {EmbedCall(data, options.logo)}
                          ELSE embedCalls
         /\ IF outcome = "ok" THEN WriteFile(path, ItemFileKind(branch)) ELSE NoWrite
         /\ pc' = "exited"
         /\ exitCode' = IF outcome = "ok" THEN 0 ELSE 1

\* const outputDir = path.dirname(outputPath)
GenerateInDir(path, dir, branch, opts, mkdirOk) ==
    GenerateAt(path, dir, branch, opts, ensureDirectory(dir, mkdirOk))

\* const outputPath = resolveOutputPath(options.output, format)
GenerateTo(path, branch, opts, mkdirOk) ==
    GenerateInDir(path, Dirname(path), branch, opts, mkdirOk)

\* generateQR for the format: options, path, and the branch that generates
GenerateAs(fmt, mkdirOk) ==
    /\ format' = fmt
    /\ GenerateTo(resolveOutputPath(options.output, fmt, now),
                  ItemBranch(fmt, shouldEmbedLogo(options)),
                  buildQROptions(options), mkdirOk)

\* handleStandardMode: generateQR(data, options)
HandleStandardMode ==
    /\ pc = "standard"
    /\ qrOptions' = buildQROptions(options)
    /\ \E mkdirOk \in BOOLEAN : GenerateAs(getOutputFormat(options), mkdirOk)
    /\ UNCHANGED <<inputVars, now, handler, validated, lines, outputDir, uselogo, i,
                   success, failed, result, attempted, run, apiVars>>

S_dotHtml == <<".","h","t","m","l">>

\* options.output.endsWith(".html") ? options.output : `${options.output}.html`
HtmlOutputPath(output) == IF EndsWith(output, S_dotHtml) THEN output ELSE output \o S_dotHtml

\* handleHTMLMode: generateHTMLEmbed(data, options), then a file or the console
HandleHTMLMode ==
    /\ pc = "html"
    /\ \E outcome \in {"ok", "encodeThrows", "writeThrows"} :
        /\ outcome = "writeThrows" => Truthy(options.output)
        /\ encoderCalls' = encoderCalls \cup
               {EncoderCall("toDataURL", data, "dataurl", buildQROptions(options))}
        /\ IF outcome = "ok" /\ Truthy(options.output)
           THEN WriteFile(PathResolve(HtmlOutputPath(options.output)), "html")
           ELSE NoWrite
        /\ pc' = "exited"
        /\ exitCode' = IF outcome = "ok" THEN 0 ELSE 1
    /\ UNCHANGED <<inputVars, now, handler, validated, batchVars, dirs, embedCalls, run, apiVars>>

\* handleIMGMode: generateIMGTag(data, options), printed to the console
HandleIMGMode ==
    /\ pc = "img"
    /\ \E outcome \in {"ok", "encodeThrows"} :
        /\ encoderCalls' = encoderCalls \cup
               {EncoderCall("toDataURL", data, "dataurl", buildQROptions(options))}
        /\ pc' = "exited"
        /\ exitCode' = IF outcome = "ok" THEN 0 ELSE 1
    /\ UNCHANGED <<inputVars, now, handler, validated, batchVars, dirs, written,
                   overwritten, embedCalls, run, apiVars>>

----------------------------------------------------------------------------
(* Inputs                                                                  *)

S_out == <<"o","u","t">>

S_qSvg == <<"q",".","s","v","g">>

S_absPng == <<"/","o","/","q",".","p","n","g">>

S_SVG == <<"S","V","G">>

S_terminal == <<"t","e","r","m","i","n","a","l">>

S_gif == <<"g","i","f">>

S_red == <<"r","e","d">>

S_F00 == <<"#","F","0","0">>

\* a logo file that exists, and one that does not
LogoPath == <<"l",".","p","n","g">>

MissingLogoPath == <<"m",".","p","n","g">>

\* the batch file given with --batch
BatchPath == <<"u",".","t","x","t">>

File(content) == [content |-> content, readable |-> TRUE]

UnreadableFile == [content |-> <<>>, readable |-> FALSE]

\* the file system without a batch file
NoBatchFile == LogoPath :> File(<<"i","m","g">>)

\* the file systems in which the batch file is missing, unreadable, or holds
\* one of the given contents; the logo file exists in all of them
FileSystems(contents) ==
    LET logo == NoBatchFile
    IN  {logo} \cup {(BatchPath :> UnreadableFile) @@ logo}
               \cup {(BatchPath :> File(c)) @@ logo : c \in contents}

\* "a\nb" and " a\n\nb\r\n": two items each
SmallContents ==
    { <<>>, <<"a","\n","b">>, <<" ","a","\n","\n","b","\r","\n">> }

\* the flags a user may give on the command line
GivenArgs ==
    [ output : {Absent, S_out, S_qSvg, S_absPng},
      format : {Absent, S_svg, S_SVG, S_terminal, S_gif},
      size : {Absent}, color : {Absent}, background : {Absent},
      margin : {Absent}, logo : {Absent, LogoPath, MissingLogoPath},
      logoSize : {Absent}, batch : {Absent, BatchPath},
      html : BOOLEAN, img : BOOLEAN ]

\* the first timestamp of the model's clock
FirstTime == 7

Init ==
    /\ data \in {Absent, <<"x">>}
    /\ argv \in GivenArgs
    /\ options = ParseArgs(argv)
    /\ fsys \in IF Truthy(options.batch) THEN FileSystems(SmallContents) ELSE {NoBatchFile}
    /\ now = FirstTime
    /\ run = 1
    /\ dirs = {}
    /\ written = << >>
    /\ overwritten = {}
    /\ StartOfRun

Next ==
    \/ ActionHandler
    \/ ProcessBatchStart
    \/ BatchItem
    \/ ProcessBatchReturn
    \/ HandleBatchModeReturn
    \/ HandleStandardMode
    \/ HandleHTMLMode
    \/ HandleIMGMode

Spec == Init /\ [][Next]_vars

----------------------------------------------------------------------------
(* Properties of the CLI run (specification Spec)                          *)

\* the action is in, or past, a batch run whose processBatch returned
BatchReturned == handler = "batch" /\ pc \in {"batchReturned", "exited"} /\ result # NoResult

\* the number of loop iterations that ended without a throw
CountOk == Cardinality({k \in 1..Len(attempted) : attempted[k].outcome = "ok"})

\* the number of loop iterations in which a call threw
CountThrown == Cardinality({k \in 1..Len(attempted) : attempted[k].outcome # "ok"})

\* C1: whatever subset of the items throws, processBatch attempts every one of
\* the N non-blank lines exactly once and in order (a failure on line i does
\* not keep line j > i from being processed), and it returns failed = the
\* number of items that threw, success = the number that did not, with
\* success + failed = N.
C1_FailuresIsolated ==
    /\ handler = "batch" /\ pc = "processing" =>
          /\ Len(attempted) = i
          /\ success + failed = i
    /\ BatchReturned =>
          /\ Len(attempted) = Len(lines)
          /\ \A k \in 1..Len(lines) :
                attempted[k].index = k - 1 /\ attempted[k].data = lines[k]
          /\ result.failed = CountThrown
          /\ result.success = CountOk
          /\ result.success + result.failed = Len(lines)

\* C1 witness: a returned run in which the first item threw and a later one
\* was still processed and succeeded
C1_Witness ==
    /\ BatchReturned
    /\ Len(attempted) >= 2
    /\ attempted[1].outcome # "ok"
    /\ attempted[2].outcome = "ok"
    /\ result.failed = 1 /\ result.success = 1

\* C2: a batch run that passed validation and directory creation exits with
\* code 1 exactly when failedCount > 0 and with code 0 exactly when it is 0,
\* and the output file of every item that succeeded is on disk even when the
\* run fails.
C2_PartialSuccessExit ==
    BatchReturned /\ pc = "exited" =>
        /\ exitCode = 1 <=> result.failed > 0
        /\ exitCode = 0 <=> result.failed = 0
        /\ \A k \in 1..Len(attempted) :
              attempted[k].outcome = "ok" => attempted[k].path \in DOMAIN written

\* C2 witness: a run that exited 1 with one failed item and the file of a
\* succeeded item on disk
C2_Witness ==
    /\ BatchReturned /\ pc = "exited"
    /\ exitCode = 1
    /\ result.failed >= 1 /\ result.success >= 1
    /\ \E k \in 1..Len(attempted) :
          attempted[k].outcome = "ok" /\ attempted[k].path \in DOMAIN written

\* C3: whenever validateOptions returns valid = false the action exits with
\* code 1 before any work: no handler is dispatched, no directory is created,
\* the encoder and the compositor are not called and no file is written.
C3_InvalidExitsBeforeWork ==
    pc # "start" /\ ~validateOptions(fsys, options, data).valid =>
        /\ pc = "exited"
        /\ exitCode = 1
        /\ handler = "none"
        /\ dirs = {}
        /\ encoderCalls = {}
        /\ embedCalls = {}
        /\ DOMAIN written = {}

\* C3 witness: the action has exited on a validation that reported errors
C3_Witness ==
    /\ pc = "exited"
    /\ ~validated.valid
    /\ Len(validated.errors) >= 2
    /\ exitCode = 1

\* C9: every options bundle handed to the encoder, for file output or for the
\* terminal preview, carries level H when a logo is requested and the default
\* M when none is.
C9_LogoForcesLevelH ==
    /\ \A c \in encoderCalls :
          c.opts.errorCorrectionLevel = IF Truthy(options.logo) THEN "H" ELSE "M"
    /\ pc \in {"processing", "batchReturned"} =>
          qrOptions.errorCorrectionLevel = IF Truthy(options.logo) THEN "H" ELSE "M"

\* C9 witness: with a logo requested, the preview and the file encoding were
\* both requested with level H
C9_Witness ==
    /\ Truthy(options.logo)
    /\ \E c \in encoderCalls : c.type = "terminal" /\ c.opts.errorCorrectionLevel = "H"
    /\ \E c \in encoderCalls : c.type = "png" /\ c.opts.errorCorrectionLevel = "H"

\* the format flag asks for vector output
VectorRequested == ToLowerCase(options.format) = S_svg

\* C10: embedLogo is called only when a logo is requested and the format is
\* png; a request with a logo and svg format encodes plain svg, in generateQR
\* and in every batch item, and never calls embedLogo.
C10_LogoOnlyOnRaster ==
    /\ embedCalls # {} => Truthy(options.logo) /\ ToLowerCase(options.format) = S_png
    /\ Truthy(options.logo) /\ VectorRequested =>
          /\ embedCalls = {}
          /\ \A c \in encoderCalls : c.type \in {"svg", "terminal", "dataurl"}
          /\ \A p \in DOMAIN written : handler \in {"batch", "standard"} =>
                written[p].kind = "svg"

\* C10 witness: a logo was requested with svg format, the svg file was
\* written and embedLogo was not called
C10_Witness ==
    /\ Truthy(options.logo) /\ VectorRequested
    /\ handler \in {"batch", "standard"}
    /\ pc = "exited" /\ exitCode = 0
    /\ DOMAIN written # {}
    /\ embedCalls = {}

----------------------------------------------------------------------------
(* Validation alone (specification SpecValidate): the action on every      *)
(* combination of acceptable and unacceptable option values                *)

S_49 == <<"4","9">>

S_1e2 == <<"1","e","2">>

S_21 == <<"2","1">>

S_41 == <<"4","1">>

\* the flags of a user who gets some of them wrong
GivenArgsValidate ==
    [ output : {Absent},
      format : {Absent, S_gif},
      size : {Absent, S_49, S_1e2},
      color : {Absent, <<>>, S_F00, S_red},
      background : {Absent, S_red},
      margin : {Absent, S_21},
      logo : {Absent, MissingLogoPath},
      logoSize : {Absent, S_41},
      batch : {Absent, BatchPath},
      html : {FALSE}, img : {FALSE} ]

InitValidate ==
    /\ data \in {Absent, <<"x">>}
    /\ argv \in GivenArgsValidate
    /\ options = ParseArgs(argv)
    /\ fsys \in IF Truthy(options.batch) THEN FileSystems(SmallContents) ELSE {NoBatchFile}
    /\ now = FirstTime
    /\ run = 1
    /\ dirs = {}
    /\ written = << >>
    /\ overwritten = {}
    /\ StartOfRun

NextValidate == ActionHandler

SpecValidate == InitValidate /\ [][NextValidate]_vars

\* the errors of the violated rules, in rule order
ErrorsOfViolated(rules) ==
    LET violated == SelectSeq(rules, LAMBDA r : r.violated)
    IN  [k \in 1..Len(violated) |-> violated[k].error]

\* C4: validateOptions collects every violation: the errors it returns are the
\* errors of exactly the violated rules, one per rule and in rule order, and
\* valid is true exactly when that list is empty.
C4_AllViolationsCollected ==
    pc # "start" =>
        /\ validated.errors = ErrorsOfViolated(ValidationRules(fsys, options, data))
        /\ Len(validated.errors) =
              Cardinality({k \in 1..9 : ValidationRules(fsys, options, data)[k].violated})
        /\ validated.valid <=> validated.errors = <<>>

\* C4 witness: eight rules are violated at once (the data rule and the batch
\* rule exclude each other) and eight errors are returned, the first for the
\* color and the last for a batch file that was not found
C4_Witness ==
    /\ pc = "exited"
    /\ Len(validated.errors) = 8
    /\ validated.errors[1] = <<"Invalid color format: ", S_red>>
    /\ validated.errors[8] = <<"Batch file not found", <<>> >>

----------------------------------------------------------------------------
(* Batch runs over every small batch file (specification SpecBatch)        *)

\* the characters of the batch files: a letter, a blank, and the line break
LineAlphabet == {"a", " ", "\n"}

\* longest batch file content tried exhaustively
MaxContentLen == 4

\* "a\n\nb\n   \nc": the lines a, (empty), b, (blanks), c
FiveLineContent == <<"a","\n","\n","b","\n"," "," "," ","\n","c">>

\* " a \r\nb": lines padded with blanks and ended by CR LF
PaddedContent == <<" ","a"," ","\r","\n","b">>

BatchContents ==
    UNION {[1..n -> LineAlphabet] : n \in 0..MaxContentLen}
        \cup {FiveLineContent, PaddedContent}

\* qr-forge --batch u.txt [-f svg]
GivenArgsBatch ==
    [ output : {Absent}, format : {Absent, S_svg},
      size : {Absent}, color : {Absent}, background : {Absent},
      margin : {Absent}, logo : {Absent}, logoSize : {Absent},
      batch : {BatchPath}, html : {FALSE}, img : {FALSE} ]

InitBatch ==
    /\ data = Absent
    /\ argv \in GivenArgsBatch
    /\ options = ParseArgs(argv)
    /\ fsys \in {(BatchPath :> File(c)) @@ NoBatchFile : c \in BatchContents}
    /\ now = FirstTime
    /\ run = 1
    /\ dirs = {}
    /\ written = << >>
    /\ overwritten = {}
    /\ StartOfRun

NextBatch ==
    \/ ActionHandler
    \/ ProcessBatchStart
    \/ BatchItem
    \/ ProcessBatchReturn
    \/ HandleBatchModeReturn

SpecBatch == InitBatch /\ [][NextBatch]_vars

\* the lines of the batch file as they stand in the file
RawLines == Split(fsys[BatchPath].content, "\n")

\* the positions of the lines that are not empty once trimmed
NonBlank == {k \in 1..Len(RawLines) : Trim(RawLines[k]) # <<>>}

\* how many non-blank lines stand at or before line k
RankOf(k) == Cardinality({m \in NonBlank : m <= k})

\* C5: the items a batch run processes are exactly the lines of the batch file
\* that are non-empty after trimming, in file order, each taken as its trimmed
\* text; empty and whitespace-only lines are skipped and counted neither as
\* success nor as failure.
C5_NonBlankLinesInOrder ==
    BatchReturned =>
        /\ Len(attempted) = Cardinality(NonBlank)
        /\ \A k \in NonBlank : attempted[RankOf(k)].data = Trim(RawLines[k])
        /\ result.success + result.failed = Cardinality(NonBlank)

\* C5 witness: the file with the lines a, (empty), b, (blanks), c was
\* processed as the three items a, b, c
C5_Witness ==
    /\ BatchReturned
    /\ fsys[BatchPath].content = FiveLineContent
    /\ Len(RawLines) = 5
    /\ [k \in 1..Len(attempted) |-> attempted[k].data] = << <<"a">>, <<"b">>, <<"c">> >>
    /\ result.success + result.failed = 3

----------------------------------------------------------------------------
(* Batches of up to a thousand items and more (specification SpecLong):    *)
(* the loop from its last iteration on, every earlier item written         *)

\* number of lines of the longest batch file
MaxItems == 1001

\* the batch sizes tried: a few small ones, and the last five up to MaxItems
LongSizes == {1, 9, 10, 99, 100} \cup ((MaxItems - 4)..MaxItems)

\* n lines "a" separated by line breaks
LongContent(n) == [k \in 1..(2 * n - 1) |-> IF k % 2 = 1 THEN "a" ELSE "\n"]

\* processBatch on a file of n lines when n - 1 iterations of the loop have
\* written their items
LoopBeforeLast(n) ==
    /\ fsys = (BatchPath :> File(LongContent(n))) @@ NoBatchFile
    /\ now = FirstTime
    /\ run = 1
    /\ pc = "processing"
    /\ handler = "batch"
    /\ exitCode = -1
    /\ validated = validateOptions(fsys, options, data)
    /\ lines = validateBatchFile(fsys, options.batch).lines
    /\ format = getOutputFormat(options)
    /\ qrOptions = buildQROptions(options)
    /\ outputDir = resolveOutputDir(options.output, BatchFileBaseName(options.batch), now)
    /\ uselogo = shouldEmbedLogo(options)
    /\ i = n - 1
    /\ success = n - 1
    /\ failed = 0
    /\ result = NoResult
    /\ attempted = [k \in 1..(n - 1) |->
                      [index |-> k - 1, data |-> lines[k],
                       path |-> BatchOutputPath(outputDir, k - 1, format), outcome |-> "ok"]]
    /\ dirs = {outputDir}
    /\ written = [p \in {attempted[k].path : k \in 1..(n - 1)} |->
                      [run |-> run, at |-> now, kind |-> ItemFileKind(ItemBranch(format, uselogo))]]
    /\ overwritten = {}
    /\ encoderCalls = {ItemEncoderCall(ItemBranch(format, uselogo), lines[k], qrOptions) :
                          k \in 1..(n - 1)}
    /\ embedCalls = {}
    /\ call = NoCall
    /\ returned = Unset
    /\ stage = "idle"

InitLong ==
    /\ data = Absent
    /\ argv \in GivenArgsBatch
    /\ options = ParseArgs(argv)
    /\ \E n \in LongSizes : LoopBeforeLast(n)

NextLong ==
    \/ BatchItem
    \/ ProcessBatchReturn
    \/ HandleBatchModeReturn

SpecLong == InitLong /\ [][NextLong]_vars

\* the digits of the item number in the path the latest item was given:
\* what stands between "<outputDir>/qr-" and ".<format>"
LatestDigits ==
    SubSeq(attempted[i].path, Len(outputDir) + 5, Len(attempted[i].path) - Len(format) - 1)

\* C6: the i-th processed item is written to <outputDir>/qr-<i>.<ext>, i in
\* decimal and zero-padded to at least three digits, so the items written in
\* one run are as many different files, for 1000 items and more as for fewer.
C6_ItemFileNames ==
    handler = "batch" /\ pc = "processing" /\ i > 0 =>
        /\ attempted[i].path =
              outputDir \o <<"/","q","r","-">> \o LatestDigits \o <<".">> \o format
        /\ AllDigits(LatestDigits)
        /\ DecVal(LatestDigits) = i
        /\ Len(LatestDigits) >= 3
        /\ Len(LatestDigits) > 3 => LatestDigits[1] # "0"
        /\ Cardinality(DOMAIN written) = success
        /\ attempted[i].outcome = "ok" => attempted[i].path \in DOMAIN written

\* C6 witness: the last item of a batch of 1001 was written to qr-1001.<ext>,
\* and the 1001 files of the run are on disk
C6_Witness ==
    /\ handler = "batch" /\ pc = "processing"
    /\ i = 1001
    /\ attempted[1001].outcome = "ok"
    /\ EndsWith(attempted[1001].path, <<"/","q","r","-","1","0","0","1",".">> \o format)
    /\ Cardinality(DOMAIN written) = 1001

----------------------------------------------------------------------------
(* The same batch command run again (specification SpecRuns)               *)

\* how many times the command is run
MaxRuns == 2

S_absDir == <<"/","o","/","d">>

S_relDir == <<".","/","q","/">>

\* qr-forge --batch u.txt [-o <output>]
GivenArgsRuns ==
    [ output : {Absent, S_out, S_qSvg, S_absPng, S_absDir, S_relDir}, format : {Absent},
      size : {Absent}, color : {Absent}, background : {Absent},
      margin : {Absent}, logo : {Absent}, logoSize : {Absent},
      batch : {BatchPath}, html : {FALSE}, img : {FALSE} ]

InitRuns ==
    /\ data = Absent
    /\ argv \in GivenArgsRuns
    /\ options = ParseArgs(argv)
    /\ fsys = (BatchPath :> File(<<"a","\n","b">>)) @@ NoBatchFile
    /\ now = FirstTime
    /\ run = 1
    /\ dirs = {}
    /\ written = << >>
    /\ overwritten = {}
    /\ StartOfRun

\* the user runs the same command again, in the same millisecond or later;
\* the files and directories of the earlier runs are still on disk
NewRun ==
    /\ pc = "exited"
    /\ run < MaxRuns
    /\ run' = run + 1
    /\ now' \in {now, now + 1}
    /\ pc' = "start"
    /\ handler' = "none"
    /\ exitCode' = -1
    /\ validated' = NotValidated
    /\ lines' = <<>>
    /\ format' = Unset
    /\ qrOptions' = buildQROptions(CommanderDefaults)
    /\ outputDir' = Unset
    /\ uselogo' = FALSE
    /\ i' = 0
    /\ success' = 0
    /\ failed' = 0
    /\ result' = NoResult
    /\ attempted' = <<>>
    /\ encoderCalls' = {}
    /\ embedCalls' = {}
    /\ UNCHANGED <<inputVars, dirs, written, overwritten, apiVars>>

NextRuns ==
    \/ ActionHandler
    \/ ProcessBatchStart
    \/ BatchItem
    \/ ProcessBatchReturn
    \/ HandleBatchModeReturn
    \/ NewRun

SpecRuns == InitRuns /\ [][NextRuns]_vars

\* processBatch has resolved its output directory
DirResolved == handler = "batch" /\ pc \in {"processing", "batchReturned"}

S_exports == <<"/","h","/",".","q","r","-","f","o","r","g","e","/","e","x","p","o","r","t","s">>

\* the directory the given output value implies: its parent directory when
\* the value has a file extension, else the value itself, made absolute
\* against the default export directory when relative
ImpliedDir ==
    CASE options.output = S_out    -> S_exports \o <<"/","o","u","t">>
      [] options.output = S_qSvg   -> S_exports
      [] options.output = S_absPng -> <<"/","o">>
      [] options.output = S_absDir -> <<"/","o","/","d">>
      [] options.output = S_relDir -> S_exports \o <<"/","q","/">>
      [] OTHER                     -> S_exports

\* <batchFileBaseName>_batch_<timestamp> of the current run
PerRunFolder == <<"u","_","b","a","t","c","h","_">> \o NumberToString(now)

\* C7 as stated: the resolved output directory is always a per-run subfolder
\* <batchFileBaseName>_batch_<timestamp>, inside the default export directory
\* when no output is given and otherwise inside the directory the output
\* value implies.
C7_AlwaysPerRunSubfolder ==
    DirResolved => outputDir = StripTrailingSeps(ImpliedDir) \o <<"/">> \o PerRunFolder

\* C7 amended: the resolved output directory is the per-run subfolder
\* <batchFileBaseName>_batch_<timestamp> of the default export directory only
\* when no output is given; when an output value is given it is the directory
\* that value implies, with no per-run subfolder.
C7_SubfolderOnlyByDefault ==
    DirResolved =>
        outputDir = IF options.output = Absent
                    THEN S_exports \o <<"/">> \o PerRunFolder
                    ELSE ImpliedDir

\* C7 witness: with -o /o/q.png the items are written to /o itself
C7_Witness ==
    /\ DirResolved
    /\ options.output = S_absPng
    /\ outputDir = <<"/","o">>
    /\ <<"/","o","/","q","r","-","0","0","1",".","p","n","g">> \in DOMAIN written

\* the file is inside the directory
Inside(file, dir) == Len(file) > Len(dir) /\ SubSeq(file, 1, Len(dir) + 1) = dir \o <<"/">>

\* no file of an earlier run started at another millisecond is in the output
\* directory of the current run, and no such file was overwritten
NoCollision ==
    /\ \A o \in overwritten : o.earlier = o.later
    /\ DirResolved =>
          \A p \in DOMAIN written :
              written[p].run < run /\ written[p].at # now => ~Inside(p, outputDir)

\* C8 as stated: whatever the output option, two runs on the same batch file
\* started at different milliseconds resolve to different output directories
\* and the later run never overwrites a qr-NNN file of the earlier run.
C8_NeverCollide == NoCollision

\* C8 amended: when no output option is given, two runs on the same batch file
\* started at different milliseconds resolve to different output directories
\* and the later run never overwrites a qr-NNN file of the earlier run.
C8_NoCollisionByDefault == options.output = Absent => NoCollision

\* C8 witness: without an output option, a second run started a millisecond
\* later has finished, and the files of both runs are on disk
C8_Witness ==
    /\ options.output = Absent
    /\ run = 2 /\ now = FirstTime + 1
    /\ pc = "exited" /\ exitCode = 0
    /\ Cardinality({p \in DOMAIN written : written[p].run = 1}) = 2
    /\ Cardinality({p \in DOMAIN written : written[p].run = 2}) = 2
    /\ overwritten = {}

----------------------------------------------------------------------------
(* Colors (specification SpecColor): the --img flow with every short color *)
(* value, and normalizeHexColor called directly with the same value        *)

\* longest run of hex digits tried exhaustively
MaxHexLen == 8

S_F00F == <<"#","F","0","0","F">>

S_1a1a2e == <<"#","1","a","1","a","2","e">>

\* "#" followed by up to MaxHexLen digits a or F, the colors of the examples,
\* and values that are no hex color
ColorValues ==
    {<<"#">> \o w : w \in UNION {[1..n -> {"a", "F"}] : n \in 0..MaxHexLen}}
        \cup {S_F00, S_F00F, S_1a1a2e}
        \cup {Absent, <<>>, S_red, <<"F","0","0">>, <<"#","g","0","0">>, <<"#","F","0","0"," ">>}

\* qr-forge x --img [-c <color>] [-b <background>]
GivenArgsColor ==
    [ output : {Absent}, format : {Absent},
      size : {Absent}, color : ColorValues, background : {Absent, S_red, S_F00F},
      margin : {Absent}, logo : {Absent}, logoSize : {Absent},
      batch : {Absent}, html : {FALSE}, img : {TRUE} ]

InitColor ==
    /\ data = <<"x">>
    /\ argv \in GivenArgsColor
    /\ options = ParseArgs(argv)
    /\ fsys = NoBatchFile
    /\ now = FirstTime
    /\ run = 1
    /\ dirs = {}
    /\ written = << >>
    /\ overwritten = {}
    /\ StartOfRun

\* normalizeHexColor(color) called directly with the value the user gave
CallNormalizeHexColor ==
    /\ call = NoCall
    /\ call' = [fn |-> "normalizeHexColor", color |-> argv.color]
    /\ returned' = normalizeHexColor(argv.color)
    /\ UNCHANGED <<inputVars, now, pc, handler, exitCode, validated, batchVars, effectVars, run, stage>>

NextColor ==
    \/ ActionHandler
    \/ HandleIMGMode
    \/ CallNormalizeHexColor

SpecColor == InitColor /\ [][NextColor]_vars

HexChars ==
    {"0","1","2","3","4","5","6","7","8","9","a","b","c","d","e","f","A","B","C","D","E","F"}

UpperHexChars == {"0","1","2","3","4","5","6","7","8","9","A","B","C","D","E","F"}

\* "#" followed by 3, 4, 6 or 8 hex digits
ValidHexForm(color) ==
    /\ Len(color) \in {4, 5, 7, 9}
    /\ color[1] = "#"
    /\ \A k \in 2..Len(color) : color[k] \in HexChars

\* the k-th digit of the color, upper-cased
DigitOf(color, k) == UpperChar(color[k + 1])

\* what a valid color normalizes to, digit by digit
NormalizedAs(color, out) ==
    /\ Len(out) = 9
    /\ out[1] = "#"
    /\ \A k \in 2..9 : out[k] \in UpperHexChars
    /\ Len(color) = 4 =>
          /\ \A k \in 1..3 : out[2 * k] = DigitOf(color, k) /\ out[2 * k + 1] = DigitOf(color, k)
          /\ out[8] = "F" /\ out[9] = "F"
    /\ Len(color) = 5 =>
          \A k \in 1..4 : out[2 * k] = DigitOf(color, k) /\ out[2 * k + 1] = DigitOf(color, k)
    /\ Len(color) = 7 =>
          /\ \A k \in 1..6 : out[k + 1] = DigitOf(color, k)
          /\ out[8] = "F" /\ out[9] = "F"
    /\ Len(color) = 9 => \A k \in 1..8 : out[k + 1] = DigitOf(color, k)

S_FF0000FF == <<"#","F","F","0","0","0","0","F","F">>

S_1A1A2EFF == <<"#","1","A","1","A","2","E","F","F">>

\* C11: for every valid 3-, 4-, 6- or 8-digit hex color normalizeHexColor
\* returns "#" and 8 upper-case hex digits: 3 digits doubled with alpha FF,
\* 4 digits doubled, 6 digits kept with FF appended, 8 digits kept; #F00 and
\* #F00F give #FF0000FF and #1a1a2e gives #1A1A2EFF; normalizing the result
\* again returns it unchanged.
C11_NormalizedForm ==
    call.fn = "normalizeHexColor" /\ ValidHexForm(call.color) =>
        /\ NormalizedAs(call.color, returned)
        /\ call.color \in {S_F00, S_F00F} => returned = S_FF0000FF
        /\ call.color = S_1a1a2e => returned = S_1A1A2EFF
        /\ normalizeHexColor(returned) = returned

\* C11 witness: #aFFa was normalized to #AAFFFFAA
C11_Witness ==
    /\ call.fn = "normalizeHexColor"
    /\ call.color = <<"#","a","F","F","a">>
    /\ returned = <<"#","A","A","F","F","F","F","A","A">>

S_black == <<"#","0","0","0","0","0","0","F","F">>

\* C20: normalizeHexColor returns #000000FF for every input that is not a
\* valid hex color, and a run whose options passed validateOptions never
\* hands it such an input: the color and the background it normalizes are
\* valid values of the user or, when the user's value is empty, the built-in
\* defaults, and the encoder gets their normalized form.
C20_FallbackOnlyForInvalid ==
    /\ call.fn = "normalizeHexColor" /\ ~ValidHexForm(call.color) => returned = S_black
    /\ pc # "start" /\ validated.valid =>
          /\ options.color = <<>> \/ ValidHexForm(options.color)
          /\ options.background = <<>> \/ ValidHexForm(options.background)
          /\ \A c \in encoderCalls :
                /\ IF options.color = <<>> THEN c.opts.dark = S_black
                   ELSE NormalizedAs(options.color, c.opts.dark)
                /\ IF options.background = <<>>
                   THEN c.opts.light = <<"#","F","F","F","F","F","F","F","F">>
                   ELSE NormalizedAs(options.background, c.opts.light)

\* C20 witness: a direct call with the value red returned #000000FF, and the
\* command line with -c red never reached the encoder
C20_Witness ==
    /\ call.fn = "normalizeHexColor"
    /\ call.color = S_red
    /\ returned = S_black
    /\ pc = "exited" /\ ~validated.valid
    /\ encoderCalls = {}

----------------------------------------------------------------------------
(* Sizes and margins around the limits (specification SpecRanges)          *)

\* how far around each limit the values are tried
Spread == 2

\* the integers within Spread of the limit
Around(limit) == (limit - Spread)..(limit + Spread)

\* the decimal numeral of an integer, as the user types it
Numeral(n) == IF n < 0 THEN <<"-">> \o NumberToString(-n) ELSE NumberToString(n)

S_49_9 == <<"4","9",".","9">>

S_2000_1 == <<"2","0","0","0",".","1">>

S_20_5 == <<"2","0",".","5">>

\* qr-forge x -s <size> -m <margin>
GivenArgsRanges ==
    [ output : {Absent}, format : {Absent},
      size : {Numeral(n) : n \in Around(MinSize) \cup Around(MaxSize)} \cup {S_49_9, S_2000_1},
      color : {Absent}, background : {Absent},
      margin : {Numeral(n) : n \in Around(MinMargin) \cup Around(MaxMargin)} \cup {S_20_5},
      logo : {Absent}, logoSize : {Absent},
      batch : {Absent}, html : {FALSE}, img : {FALSE} ]

InitRanges ==
    /\ data = <<"x">>
    /\ argv \in GivenArgsRanges
    /\ options = ParseArgs(argv)
    /\ fsys = NoBatchFile
    /\ now = FirstTime
    /\ run = 1
    /\ dirs = {}
    /\ written = << >>
    /\ overwritten = {}
    /\ StartOfRun

SpecRanges == InitRanges /\ [][NextValidate]_vars

\* validateOptions reported the error that starts with the text
Reported(text) == \E k \in 1..Len(validated.errors) : validated.errors[k][1] = text

\* the integer a numeral stands for
IntegerValue(s) == IF s[1] = "-" THEN 0 - DecVal(Tail(s)) ELSE DecVal(s)

\* the numeral has no fraction
IsInteger(s) == AllDigits(IF s[1] = "-" THEN Tail(s) ELSE s)

\* C12: validateOptions rejects a size exactly when it is outside [50, 2000]
\* and a margin exactly when it is outside [0, 20]: 49 and 2001 give a size
\* error, 50 and 2000 none; -1 and 21 give a margin error, 0 and 20 none.
C12_RangeLimits ==
    pc # "start" =>
        /\ Reported("Invalid size: ") <=>
              IF IsInteger(options.size)
              THEN IntegerValue(options.size) < 50 \/ IntegerValue(options.size) > 2000
              ELSE options.size \in {S_49_9, S_2000_1}
        /\ Reported("Invalid margin: ") <=>
              IF IsInteger(options.margin)
              THEN IntegerValue(options.margin) < 0 \/ IntegerValue(options.margin) > 20
              ELSE options.margin = S_20_5

\* C12 witness: size 2000 and margin 0 passed, on the limits
C12_Witness ==
    /\ pc = "standard"
    /\ options.size = <<"2","0","0","0">>
    /\ options.margin = <<"0">>
    /\ validated.valid

----------------------------------------------------------------------------
(* Formats (specification Spec)                                            *)

\* the formats the documentation and the error message name
DocumentedFormats == {S_png, S_svg}

\* C13: validateOptions reports a format error for every format that is not
\* png or svg in any letter case and none for png or svg, so a request that
\* passed validation is generated with format png or svg.
C13_OnlyPngOrSvg ==
    pc # "start" =>
        /\ Reported("Invalid format: ") <=>
              ToLowerCase(options.format) \notin DocumentedFormats
        /\ validated.valid => getOutputFormat(options) \in DocumentedFormats

\* the extension of the output path, when it names a format
ExtensionFormat(output) ==
    IF output = Absent THEN Absent
    ELSE IF EndsWith(ToLowerCase(output), <<".">> \o S_svg) THEN S_svg
    ELSE IF EndsWith(ToLowerCase(output), <<".">> \o S_png) THEN S_png
    ELSE Absent

\* explicit format flag > output-path extension > default
FormatByPrecedence(given) ==
    IF given.format # Absent THEN ToLowerCase(given.format)
    ELSE IF ExtensionFormat(given.output) # Absent THEN ExtensionFormat(given.output)
    ELSE S_png

\* C14: the format follows the precedence explicit format flag, then the
\* extension of the output path, then png: a command line without a format
\* flag whose output path ends in .svg is generated as svg.
C14_FormatPrecedence ==
    (handler = "standard" /\ pc = "exited" /\ validated.valid) =>
        format = FormatByPrecedence(argv)

----------------------------------------------------------------------------
(* Single-item destinations (specification SpecSingle)                     *)

S_dQPng == <<"d","/","q",".","p","n","g">>

S_dotQPng == <<".","/","q",".","p","n","g">>

S_upQPng == <<".",".","/","q",".","p","n","g">>

\* qr-forge x [-o <output>] [-f svg] [-l <logo>]
GivenArgsSingle ==
    [ output : {Absent, S_out, S_qSvg, S_absPng, S_dQPng, S_dotQPng, S_upQPng},
      format : {Absent, S_svg},
      size : {Absent}, color : {Absent}, background : {Absent}, margin : {Absent},
      logo : {Absent, LogoPath}, logoSize : {Absent},
      batch : {Absent}, html : {FALSE}, img : {FALSE} ]

InitSingle ==
    /\ data = <<"x">>
    /\ argv \in GivenArgsSingle
    /\ options = ParseArgs(argv)
    /\ fsys = NoBatchFile
    /\ now \in {FirstTime, FirstTime + 1}
    /\ run = 1
    /\ dirs = {}
    /\ written = << >>
    /\ overwritten = {}
    /\ StartOfRun

NextSingle ==
    \/ ActionHandler
    \/ HandleStandardMode

SpecSingle == InitSingle /\ [][NextSingle]_vars

\* ~/.qr-forge/exports, the default export directory
ExportsPath == <<"/","h","/",".","q","r","-","f","o","r","g","e","/","e","x","p","o","r","t","s">>

\* the destinations of the outputs given, none of which names the timestamp
DestinationOf(output) ==
    CASE output = S_out     -> ExportsPath \o <<"/","o","u","t">>
      [] output = S_qSvg    -> ExportsPath \o <<"/","q",".","s","v","g">>
      [] output = S_absPng  -> <<"/","o","/","q",".","p","n","g">>
      [] output = S_dQPng   -> <<"/","w","/","d","/","q",".","p","n","g">>
      [] output = S_dotQPng -> <<"/","w","/","q",".","p","n","g">>
      [] output = S_upQPng  -> <<"/","q",".","p","n","g">>

\* the single-item run wrote its file
SingleWritten == handler = "standard" /\ pc = "exited" /\ exitCode = 0

\* C15: a single-item run writes to <exports>/qr-<timestamp>.<format> when
\* no output is given, to <exports>/<output> when the output is a bare file
\* name, and otherwise to the output resolved against the working directory;
\* for a given output the destination is the same at every timestamp.
C15_SingleDestination ==
    SingleWritten =>
        DOMAIN written =
            { IF argv.output = Absent
              THEN ExportsPath \o <<"/","q","r","-">> \o Numeral(now) \o <<".">> \o format
              ELSE DestinationOf(argv.output) }

\* C15 witness: -o out was written into the default export directory
C15_Witness ==
    /\ SingleWritten
    /\ argv.output = S_out
    /\ now = FirstTime + 1
    /\ DOMAIN written = {ExportsPath \o <<"/","o","u","t">>}

----------------------------------------------------------------------------
(* Logo size (specification SpecLogoSize)                                  *)

\* how far below 5 and above 40 the logo sizes are tried
LogoSpread == 10

S_7_9 == <<"7",".","9">>

S_1e1 == <<"1","e","1">>

S_12px == <<"1","2","p","x">>

S_abc == <<"a","b","c">>

\* the logoSize values an options object may carry
LogoSizeValues ==
    {Numeral(n) : n \in (MinLogoSize - LogoSpread)..(MaxLogoSize + LogoSpread)}
        \cup {Absent, S_abc, S_7_9, S_1e1, S_12px}

GivenArgsLogoSize ==
    [ output : {Absent}, format : {Absent}, size : {Absent}, color : {Absent},
      background : {Absent}, margin : {Absent}, logo : {Absent},
      logoSize : LogoSizeValues, batch : {Absent}, html : {FALSE}, img : {FALSE} ]

InitLogoSize ==
    /\ data = <<"x">>
    /\ argv \in GivenArgsLogoSize
    /\ options = ParseArgs(argv)
    /\ fsys = NoBatchFile
    /\ now = FirstTime
    /\ run = 1
    /\ dirs = {}
    /\ written = << >>
    /\ overwritten = {}
    /\ StartOfRun

\* getLogoSize(options) called directly with the options object given
CallGetLogoSize ==
    /\ call = NoCall
    /\ call' = [fn |-> "getLogoSize", logoSize |-> argv.logoSize]
    /\ returned' = getLogoSize(argv)
    /\ UNCHANGED <<inputVars, now, pc, handler, exitCode, validated, batchVars, effectVars, run, stage>>

NextLogoSize == CallGetLogoSize

SpecLogoSize == InitLogoSize /\ [][NextLogoSize]_vars

\* the value has no integer at its start
NoInteger == 0 - 1000

\* the integer at the start of the value
LeadingInteger(value) ==
    CASE value \in {Absent, S_abc} -> NoInteger
      [] value = S_7_9  -> 7
      [] value = S_1e1  -> 1
      [] value = S_12px -> 12
      [] OTHER          -> IntegerValue(value)

\* the percentage n gives: the default for 0, else n brought into 5..40
PercentageOf(n) ==
    IF n = NoInteger \/ n = 0 THEN 20 ELSE IF n < 5 THEN 5 ELSE IF n > 40 THEN 40 ELSE n

\* getLogoSize was called directly
LogoSizeCalled == call.fn = "getLogoSize"

\* C16: the fraction getLogoSize returns is always within [0.05, 0.40]; with
\* n the integer at the start of the logoSize value, n in 5..40 gives n/100,
\* a nonzero n below 5 gives 0.05, n above 40 gives 0.40, and a missing
\* value, a value without a leading integer, or n = 0 gives the default 0.20.
C16_LogoSizeFraction ==
    LogoSizeCalled =>
        /\ returned = Num(PercentageOf(LeadingInteger(call.logoSize)), 100)
        /\ NumGeq(returned, 0) /\ 5 * returned.den <= 100 * returned.num
        /\ 100 * returned.num <= 40 * returned.den

\* C16 witness: logoSize 0 gave the default 0.20
C16_Witness ==
    /\ LogoSizeCalled
    /\ call.logoSize = <<"0">>
    /\ returned = Num(20, 100)

\* C16 as stated: the value as a number (Number()) maps to value/100 inside
\* 5..40, to 0.05 below 5, to 0.40 above 40, and a missing or non-numeric
\* value gives 0.20.
C16_ClampedAsStated ==
    LogoSizeCalled =>
        LET value == ToNumber(call.logoSize)
        IN  IF call.logoSize = Absent \/ IsNaN(value) THEN returned = Num(20, 100)
            ELSE IF ~NumGeq(value, 5) THEN returned = Num(5, 100)
            ELSE IF ~NumLeq(value, 40) THEN returned = Num(40, 100)
            ELSE returned.num * value.den = value.num * returned.den

----------------------------------------------------------------------------
(* logo-embed.js (specification SpecEmbed)                                 *)

\* Math.round(num / den) for num >= 0, where num / den stands for a product
\* with a decimal fraction held in binary floating point: away from a half
\* the result is that of the exact value; on an exact half the floating
\* point product may fall on either side
RoundOfProduct(num, den) ==
    IF 2 * (num % den) < den THEN {num \div den}
    ELSE IF 2 * (num % den) > den THEN {(num \div den) + 1}
    ELSE {num \div den, (num \div den) + 1}

\* variant of the centering that leaves the layer at the top left corner
CenterOffset_TopLeft(outer, inner) == 0 * (outer - inner)

\* Math.round((outer - inner) / 2): the division of an integer by two is
\* exact and a half is rounded up
CenterOffset(outer, inner) == (outer - inner + 1) \div 2

\* a layer handed to sharp's composite
Layer(input, left, top, width, height) ==
    [input |-> input, left |-> left, top |-> top, width |-> width, height |-> height]

\* const backgroundSize = logoWidth + padding * 2
BackgroundSize(logoWidth, padding) == logoWidth + padding * 2

\* sharp(qrBuffer).composite([logoBackground, resizedLogo]) of embedLogo
EmbedLogoResult(qrWidth, qrHeight, logoWidth, logoHeight, logoX, logoY, padding) ==
    [ base   |-> [width |-> qrWidth, height |-> qrHeight],
      layers |-> << Layer("logoBackground", logoX - padding, logoY - padding,
                          BackgroundSize(logoWidth, padding),
                          BackgroundSize(logoWidth, padding)),
                    Layer("resizedLogo", logoX, logoY, logoWidth, logoHeight) >> ]

\* embedLogo once the logo's dimensions are computed
EmbedLogoOf(qrWidth, qrHeight, logoWidth, logoHeight) ==
    \E padding \in RoundOfProduct(logoWidth, 10) :
        returned' = EmbedLogoResult(qrWidth, qrHeight, logoWidth, logoHeight,
                                    CenterOffset(qrWidth, logoWidth),
                                    CenterOffset(qrHeight, logoHeight), padding)

\* variant of the circle with the padding on one side only
CircleDiameter_OneSide(logoWidth, padding) == logoWidth + padding

\* const diameter = logoWidth + padding * 2
CircleDiameter(logoWidth, padding) == logoWidth + padding * 2

\* sharp(qrBuffer).composite([circleBackground, resizedLogo]) of
\* embedLogoCircular; the circle's radius is diameter / 2
EmbedCircularResult(qrWidth, qrHeight, logoWidth, logoHeight, diameter) ==
    [ base   |-> [width |-> qrWidth, height |-> qrHeight],
      layers |-> << Layer("circleBackground", CenterOffset(qrWidth, diameter),
                          CenterOffset(qrHeight, diameter), diameter, diameter),
                    Layer("resizedLogo", CenterOffset(qrWidth, logoWidth),
                          CenterOffset(qrHeight, logoHeight), logoWidth, logoHeight) >>,
      radius |-> Num(diameter, 2) ]

\* embedLogoCircular once the logo's dimensions are computed
EmbedCircularOf(qrWidth, qrHeight, logoWidth, logoHeight) ==
    \E padding \in RoundOfProduct(logoWidth * 15, 100) :
        returned' = EmbedCircularResult(qrWidth, qrHeight, logoWidth, logoHeight,
                                        CircleDiameter(logoWidth, padding))

\* the widths of the square QR rasters handed to the compositor
QrWidths == MinSize..MaxSize

\* the call of a compositor with a square raster of the width
EmbedCallOf(fn, qrWidth) ==
    [fn |-> fn, qrWidth |-> qrWidth, qrHeight |-> qrWidth, logoSize |-> argv.logoSize]

\* embedLogo(qrBuffer, logoPath, options) called directly: the width and the
\* height are multiplied by the same ratio and round alike
CallEmbedLogo ==
    /\ call = NoCall
    /\ \E qrWidth \in QrWidths :
         \E logoWidth \in RoundOfProduct(qrWidth * getLogoSize(argv).num, getLogoSize(argv).den) :
            /\ call' = EmbedCallOf("embedLogo", qrWidth)
            /\ EmbedLogoOf(qrWidth, qrWidth, logoWidth, logoWidth)
    /\ UNCHANGED <<inputVars, now, pc, handler, exitCode, validated, batchVars, effectVars, run, stage>>

\* embedLogoCircular(qrBuffer, logoPath, options) called directly
CallEmbedLogoCircular ==
    /\ call = NoCall
    /\ \E qrWidth \in QrWidths :
         \E logoWidth \in RoundOfProduct(qrWidth * getLogoSize(argv).num, getLogoSize(argv).den) :
            /\ call' = EmbedCallOf("embedLogoCircular", qrWidth)
            /\ EmbedCircularOf(qrWidth, qrWidth, logoWidth, logoWidth)
    /\ UNCHANGED <<inputVars, now, pc, handler, exitCode, validated, batchVars, effectVars, run, stage>>

\* the options objects handed to the compositor: every percentage, and none
GivenArgsEmbed ==
    [ output : {Absent}, format : {Absent}, size : {Absent}, color : {Absent},
      background : {Absent}, margin : {Absent}, logo : {LogoPath},
      logoSize : {Numeral(n) : n \in MinLogoSize..MaxLogoSize} \cup {Absent},
      batch : {Absent}, html : {FALSE}, img : {FALSE} ]

InitEmbed ==
    /\ data = <<"x">>
    /\ argv \in GivenArgsEmbed
    /\ options = ParseArgs(argv)
    /\ fsys = NoBatchFile
    /\ now = FirstTime
    /\ run = 1
    /\ dirs = {}
    /\ written = << >>
    /\ overwritten = {}
    /\ StartOfRun

NextEmbed ==
    \/ CallEmbedLogo
    \/ CallEmbedLogoCircular

SpecEmbed == InitEmbed /\ [][NextEmbed]_vars

\* |x| <= bound
Within(x, bound) == x <= bound /\ 0 - x <= bound

\* the percentage of the call's options
CallPercent == IF call.logoSize = Absent THEN 20 ELSE IntegerValue(call.logoSize)

\* the layer is a square
IsSquare(layer) == layer.width = layer.height

\* the two layers have the same center on both axes
SameCenter(a, b) ==
    /\ 2 * a.left + a.width = 2 * b.left + b.width
    /\ 2 * a.top + a.height = 2 * b.top + b.height

\* the layer's center is the raster's, to the whole pixel
CenteredOn(layer, base) ==
    /\ Within(2 * layer.left + layer.width - base.width, 1)
    /\ Within(2 * layer.top + layer.height - base.height, 1)

\* the layer lies entirely inside the raster
InsideRaster(layer, base) ==
    /\ layer.left >= 0 /\ layer.left + layer.width <= base.width
    /\ layer.top >= 0 /\ layer.top + layer.height <= base.height

\* the logo is the fraction of the raster, to the whole pixel, at
\* (raster - logo) / 2 on each axis
LogoPlaced(logo, base, percent) ==
    /\ Within(100 * logo.width - percent * base.width, 50)
    /\ Within(100 * logo.height - percent * base.height, 50)
    /\ Within(2 * logo.left - (base.width - logo.width), 1)
    /\ Within(2 * logo.top - (base.height - logo.height), 1)

\* base QR, then the backing, then the logo
LayersInOrder(backing) ==
    /\ returned.base = [width |-> call.qrWidth, height |-> call.qrHeight]
    /\ Len(returned.layers) = 2
    /\ returned.layers[1].input = backing
    /\ returned.layers[2].input = "resizedLogo"

\* C17: embedLogo composites the base QR, the padding background and the
\* resized logo in that order; in whole pixels the logo measures the logo
\* size fraction of the QR dimension and sits at (QR - logo) / 2 on each
\* axis, and the square backing has side logo x 1.2, is centered on the logo
\* and on the QR, and lies inside the raster for every width in [50, 2000]
\* and every fraction in [0.05, 0.40].
C17_SquareBacking ==
    call.fn = "embedLogo" =>
        /\ LayersInOrder("logoBackground")
        /\ LogoPlaced(returned.layers[2], returned.base, CallPercent)
        /\ IsSquare(returned.layers[1])
        /\ Within(10 * returned.layers[1].width - 12 * returned.layers[2].width, 10)
        /\ SameCenter(returned.layers[1], returned.layers[2])
        /\ CenteredOn(returned.layers[1], returned.base)
        /\ InsideRaster(returned.layers[1], returned.base)

\* C17 witness: a 2000 pixel raster with logoSize 40: an 800 pixel logo at
\* 600 on a 960 pixel backing at 520
C17_Witness ==
    /\ call.fn = "embedLogo"
    /\ call.qrWidth = 2000
    /\ call.logoSize = <<"4","0">>
    /\ returned.layers = << Layer("logoBackground", 520, 520, 960, 960),
                            Layer("resizedLogo", 600, 600, 800, 800) >>

\* the circle's padding, half of what the diameter adds to the logo
CirclePadding == (returned.layers[1].width - returned.layers[2].width) \div 2

\* C18: embedLogoCircular draws a circular backing whose diameter is the
\* logo plus a padding of round(logo x 0.15) on both sides, so that its
\* radius is about logo x (1 + 2 x 0.15) / 2, centered on the QR raster to
\* the whole pixel, behind the resized logo.
C18_CircleBacking ==
    call.fn = "embedLogoCircular" =>
        /\ LayersInOrder("circleBackground")
        /\ LogoPlaced(returned.layers[2], returned.base, CallPercent)
        /\ IsSquare(returned.layers[1])
        /\ returned.layers[1].width = returned.layers[2].width + 2 * CirclePadding
        /\ Within(100 * CirclePadding - 15 * returned.layers[2].width, 50)
        /\ returned.radius = Num(returned.layers[1].width, 2)
        /\ CenteredOn(returned.layers[1], returned.base)

\* C18 witness: a 2000 pixel raster with logoSize 40: an 800 pixel logo on a
\* circle of radius 520
C18_Witness ==
    /\ call.fn = "embedLogoCircular"
    /\ call.qrWidth = 2000
    /\ call.logoSize = <<"4","0">>
    /\ returned.layers[2].width = 800
    /\ returned.radius = Num(1040, 2)

\* C18 as stated: the radius is logo x (1 + 0.15) / 2, to the whole pixel
C18_RadiusAsStated ==
    call.fn = "embedLogoCircular" =>
        Within(200 * returned.radius.num - 115 * returned.layers[2].width * returned.radius.den,
               100 * returned.radius.den)

----------------------------------------------------------------------------
(* processBatch await by await (specification SpecSteps)                   *)

\* variant of the loop's condition that leaves the last line out
LoopContinues_SkipLast(index, n) == index + 1 < n

\* i < lines.length
LoopContinues(index, n) == index < n

\* the end of an iteration: success++ or the catch block's failed++, then i++
ItemDone(outcome) ==
    /\ success' = CountSuccess(success, outcome)
    /\ failed' = CountFailed(failed, outcome)
    /\ attempted' = Append(attempted,
           [index |-> i, data |-> lines[i + 1],
            path |-> BatchOutputPath(outputDir, i, format), outcome |-> outcome])
    /\ i' = NextIndex(i, outcome)
    /\ stage' = "idle"

\* the iteration goes on to its next call
ItemGoesOn(next) ==
    /\ stage' = next
    /\ UNCHANGED <<success, failed, attempted, i>>

\* the loop's condition holds: data, filename and outputPath of the item
ItemStart ==
    /\ pc = "processing"
    /\ stage = "idle"
    /\ LoopContinues(i, Len(lines))
    /\ stage' = "encode"
    /\ UNCHANGED <<inputVars, now, pc, handler, exitCode, validated, batchVars,
                   effectVars, run, call, returned>>

\* the encoder call of the branch returned or threw
EncodeReturns(branch, ok) ==
    /\ encoderCalls' = encoderCalls \cup {ItemEncoderCall(branch, lines[i + 1], qrOptions)}
    /\ IF ~ok THEN ItemDone("encodeThrows") /\ NoWrite
       ELSE IF branch = "svg" THEN ItemGoesOn("write") /\ NoWrite
       ELSE IF branch = "logo" THEN ItemGoesOn("embed") /\ NoWrite
       ELSE /\ WriteFile(BatchOutputPath(outputDir, i, format), ItemFileKind(branch))
            /\ ItemDone("ok")

\* await QRCode.toString / toBuffer / toFile
ItemEncode ==
    /\ pc = "processing"
    /\ stage = "encode"
    /\ \E ok \in BOOLEAN : EncodeReturns(ItemBranch(format, uselogo), ok)
    /\ UNCHANGED <<inputVars, now, pc, handler, exitCode, validated, lines, format,
                   qrOptions, outputDir, uselogo, result, dirs, embedCalls, run,
                   call, returned>>

\* await embedLogo(qrBuffer, options.logo, options)
ItemEmbed ==
    /\ pc = "processing"
    /\ stage = "embed"
    /\ embedCalls' = embedCalls \cup {EmbedCall(lines[i + 1], options.logo)}
    /\ \E ok \in BOOLEAN : IF ok THEN ItemGoesOn("write") ELSE ItemDone("embedThrows")
    /\ UNCHANGED <<inputVars, now, pc, handler, exitCode, validated, lines, format,
                   qrOptions, outputDir, uselogo, result, dirs, written, overwritten,
                   encoderCalls, run, call, returned>>

\* fs.writeFileSync(outputPath, ...)
ItemWrite ==
    /\ pc = "processing"
    /\ stage = "write"
    /\ \E ok \in BOOLEAN :
         IF ok
         THEN /\ WriteFile(BatchOutputPath(outputDir, i, format),
                           ItemFileKind(ItemBranch(format, uselogo)))
              /\ ItemDone("ok")
         ELSE NoWrite /\ ItemDone("writeThrows")
    /\ UNCHANGED <<inputVars, now, pc, handler, exitCode, validated, lines, format,
                   qrOptions, outputDir, uselogo, result, dirs, encoderCalls,
                   embedCalls, run, call, returned>>

\* "a", "a\nb" and "a\n\nb\nc": one, two and three items
StepContents ==
    { <<"a">>, <<"a","\n","b">>, <<"a","\n","\n","b","\n","c">> }

\* qr-forge --batch u.txt [-f svg] [-l logo.png]
GivenArgsSteps ==
    [ output : {Absent, S_out}, format : {Absent, S_svg},
      size : {Absent}, color : {Absent}, background : {Absent},
      margin : {Absent}, logo : {Absent, LogoPath}, logoSize : {Absent},
      batch : {BatchPath}, html : {FALSE}, img : {FALSE} ]

InitSteps ==
    /\ data = Absent
    /\ argv \in GivenArgsSteps
    /\ options = ParseArgs(argv)
    /\ fsys \in FileSystems(StepContents)
    /\ now = FirstTime
    /\ run = 1
    /\ dirs = {}
    /\ written = << >>
    /\ overwritten = {}
    /\ StartOfRun

NextSteps ==
    \/ ActionHandler
    \/ ProcessBatchStart
    \/ ItemStart
    \/ ItemEncode
    \/ ItemEmbed
    \/ ItemWrite
    \/ ProcessBatchReturn
    \/ HandleBatchModeReturn

\* a call of the loop body is awaited
AwaitPending == pc = "processing" /\ stage \in {"encode", "embed", "write"}

\* the awaited calls of the loop body
AwaitedCalls ==
    \/ ItemEncode
    \/ ItemEmbed
    \/ ItemWrite

\* WF_vars(AwaitedCalls) written out, with AwaitPending for ENABLED
\* <<AwaitedCalls>>_vars: an awaited call returns or throws
CallsReturn == []<>(~AwaitPending) \/ []<><<AwaitedCalls>>_vars

\* the loop goes on when it can, every awaited call returns or throws, and
\* the function returns after the loop
SpecSteps ==
    /\ InitSteps /\ [][NextSteps]_vars
    /\ WF_vars(ItemStart) /\ WF_vars(ProcessBatchReturn)
    /\ CallsReturn

\* the phases of a batch run: Validating, Resolving, Processing, Summarizing
\* and the end of the process
PhaseOrder ==
    { <<"start", "batch">>, <<"start", "exited">>, <<"batch", "processing">>,
      <<"batch", "exited">>, <<"processing", "batchReturned">>,
      <<"batchReturned", "exited">> }

\* the phase changes along the order only
PhasesInOrder == pc' # pc => <<pc, pc'>> \in PhaseOrder

\* while items are processed the output directory exists and stays the same
DirectoryOnce ==
    pc = "processing" => /\ outputDir \in dirs
                         /\ outputDir' = outputDir
                         /\ dirs' = dirs

\* the item in progress is item i + 1, and the items before it are finished:
\* attempted and counted
OneItemAtATime ==
    /\ Len(attempted) = i
    /\ success + failed = i
    /\ \A k \in 1..Len(attempted) : attempted[k].index = k - 1
    /\ stage # "idle" => pc = "processing" /\ i < Len(lines)

\* a call or a write belongs to the item in progress
EffectsOfItemInProgress ==
    pc = "processing" =>
        /\ encoderCalls' # encoderCalls =>
              /\ stage = "encode"
              /\ encoderCalls' \ encoderCalls =
                     {ItemEncoderCall(ItemBranch(format, uselogo), lines[i + 1], qrOptions)}
        /\ embedCalls' # embedCalls => stage = "embed"
        /\ written' # written =>
              /\ stage \in {"encode", "write"}
              /\ DOMAIN written' \ DOMAIN written = {BatchOutputPath(outputDir, i, format)}
              /\ i' = i + 1 /\ success' = success + 1
        /\ i' # i => i' = i + 1 /\ stage # "idle" /\ stage' = "idle"

\* processBatch returned the result of exactly the N items
Summarized ==
    /\ pc = "batchReturned"
    /\ stage = "idle"
    /\ Len(attempted) = Len(lines)
    /\ result = [success |-> success, failed |-> failed, outputDir |-> outputDir]
    /\ result.success + result.failed = Len(lines)

\* C19: a batch run goes through validating, resolving, processing and
\* summarizing in that order; the output directory is resolved and created
\* once, before the first item; the items are handled in index order, one at
\* a time, each encoded, composited, written and counted before the next one
\* starts; and when every call returns, the run reaches the summary and
\* returns the result after exactly N items.
C19_BatchPhases ==
    /\ [][PhasesInOrder /\ DirectoryOnce /\ EffectsOfItemInProgress]_vars
    /\ [](OneItemAtATime /\ (pc = "batchReturned" => Summarized))
    /\ (pc = "processing") ~> Summarized

\* C19 witness: the three items of a batch with a logo were processed, the
\* second one failed in the compositor
C19_Witness ==
    /\ Summarized
    /\ Len(lines) = 3
    /\ uselogo
    /\ attempted[1].outcome = "ok"
    /\ attempted[2].outcome = "embedThrows"
    /\ attempted[3].outcome = "ok"
    /\ result = [success |-> 2, failed |-> 1, outputDir |-> outputDir]

----------------------------------------------------------------------------
(* Numbers from validation to the encoder (specification SpecNumbers)      *)

S_1e3 == <<"1","e","3">>

S_0x64 == <<"0","x","6","4">>

S_50_5 == <<"5","0",".","5">>

S_0x10 == <<"0","x","1","0">>

S_2_5 == <<"2",".","5">>

\* sizes in exponent, hexadecimal and fractional notation: 100, 1000, 100, 50.5
NotatedSizes == {S_1e2, S_1e3, S_0x64, S_50_5}

\* margins in exponent, hexadecimal and fractional notation: 10, 16, 2.5
NotatedMargins == {S_1e1, S_0x10, S_2_5}

\* qr-forge x -s <size> -m <margin>
GivenArgsNumbers ==
    [ output : {Absent}, format : {Absent, S_svg},
      size : {Numeral(n) : n \in Around(MinSize) \cup Around(MaxSize)} \cup NotatedSizes,
      color : {Absent}, background : {Absent},
      margin : {Numeral(n) : n \in Around(MinMargin) \cup Around(MaxMargin)}
                   \cup NotatedMargins,
      logo : {Absent}, logoSize : {Absent},
      batch : {Absent}, html : {FALSE}, img : {FALSE} ]

InitNumbers ==
    /\ data = <<"x">>
    /\ argv \in GivenArgsNumbers
    /\ options = ParseArgs(argv)
    /\ fsys = NoBatchFile
    /\ now = FirstTime
    /\ run = 1
    /\ dirs = {}
    /\ written = << >>
    /\ overwritten = {}
    /\ StartOfRun

NextNumbers ==
    \/ ActionHandler
    \/ HandleStandardMode

SpecNumbers == InitNumbers /\ [][NextNumbers]_vars

\* the number the string stands for, as numerator and denominator
NumberWritten(s) ==
    CASE s \in {S_1e2, S_0x64} -> <<100, 1>>
      [] s = S_1e3   -> <<1000, 1>>
      [] s = S_50_5  -> <<101, 2>>
      [] s = S_1e1   -> <<10, 1>>
      [] s = S_0x10  -> <<16, 1>>
      [] s = S_2_5   -> <<5, 2>>
      [] OTHER       -> <<IntegerValue(s), 1>>

\* the number handed to the encoder is the number written
SameNumber(passed, s) ==
    /\ ~IsNaN(passed) /\ passed.inf = 0
    /\ passed.num * NumberWritten(s)[2] = NumberWritten(s)[1] * passed.den

\* the number handed to the encoder is an integer of the range
IntegerWithin(passed, min, max) ==
    /\ ~IsNaN(passed) /\ passed.inf = 0 /\ passed.den = 1
    /\ min <= passed.num /\ passed.num <= max

\* the calls that generate the file, the terminal preview left aside
GeneratingCalls == {c \in encoderCalls : c.type # "terminal"}

\* C21: for every size and margin that validateOptions accepts, the width
\* and the margin buildQROptions hands to the encoder are the numbers that
\* were validated, integers in [50, 2000] and [0, 20], in exponent,
\* hexadecimal and fractional notation too, and building twice from the same
\* options gives the same width.
C21_ValidatedNumbersReachEncoder ==
    validated.valid =>
        /\ \A c \in GeneratingCalls :
              /\ SameNumber(c.opts.width, options.size)
              /\ SameNumber(c.opts.margin, options.margin)
              /\ IntegerWithin(c.opts.width, 50, 2000)
              /\ IntegerWithin(c.opts.margin, 0, 20)
        /\ pc = "exited" => qrOptions.width = buildQROptions(options).width

====
